---- MODULE Spec2Model ----
(***************************************************************************)
(* Model of the deploid command-line toolchain: the leveled Logger, the    *)
(* pipeline runner (runPipeline / createContext), the configuration loader *)
(* (loadConfig), the plugin loader (loadPlugin) and the pipeline           *)
(* subcommands of the CLI entry point that wire them together.             *)
(***************************************************************************)
EXTENDS Integers, Sequences, FiniteSets, TLC

\* ------------------------------------------------------------------ bounds
MaxSteps == 3
MaxCalls == 3

\* ------------------------------------------------------------- vocabulary
Undefined == "undefined"

\* the errors a stub step may reject with
Errors == {"e1", "e2"}

\* the stub steps a caller may put in a step list
StubSteps == {[plugin |-> "s1", origin |-> "stub"], [plugin |-> "s2", origin |-> "stub"]}

VARIABLES
  \* --- process-wide logger and console
  logger,      \* the level of the process-wide Logger, "none" before the module is evaluated
  calls,       \* the levels of the Logger method calls made so far (logger specification)
  out,         \* the console: the sequence of emitted [level, msg] records
  \* --- one runPipeline call
  ctx,         \* the PipelineContext: [debug, logger, config, cwd]
  steps,       \* the supplied step list
  outcomes,    \* what the step at each position does when awaited: "ok" or the error it rejects with
  pc,          \* position of runPipeline: "idle", "entry", "loop", "await", "resolved", "rejected"
  i,           \* the loop variable of runPipeline (0-based)
  promise,     \* the promise of the step in flight: [state, reason], state "none", "pending", "fulfilled", "rejected"
  stepState,   \* per position: "Pending", "Running", "Succeeded", "Failed"
  started,     \* the positions whose step has been invoked, in invocation order
  result,      \* the promise runPipeline returned: [state, reason], state "none", "resolved", "rejected"
  \* --- one loadConfig call
  files,       \* the working directory: candidate file name -> the module in that file, or Absent
  cfgPc,       \* position of loadConfig: "idle", "probe", "import", "resolved", "rejected"
  cand,        \* index of the candidate the loop is at (0-based)
  probed,      \* the file names passed to fs.existsSync, in order
  evaluated,   \* the file names passed to import(), in order
  cfgResult,   \* the promise loadConfig returned: [state, value, reason]
  \* --- one loadPlugin call
  localPkgs,   \* plugin names that have a package in the project's node_modules
  bundled,     \* plugin directories whose dist/index.js exists next to the loader
  pluginName,  \* the pluginName argument
  ldPc,        \* position of loadPlugin: "idle", "switch", "import", "resolved", "rejected"
  ldResult,    \* the promise loadPlugin returned: [state, step, reason]
  \* --- the CLI process
  env,         \* process.env: [SHIPWRIGHT_LOG_LEVEL, DEPLOID_LOG_LEVEL]
  command,     \* the subcommand on the command line
  options,     \* the parsed options: [debug]
  cliPc,       \* position of the process: "none", "start", "dispatch", "loadConfig", "context",
               \*   "loadPlugin", "runPipeline", "returned", "rejected", "exited"
  cliError,    \* the rejection of the command's action: [src, msg]
  exitCode,    \* the exit status, -1 while the process runs
  \* --- the body of the step or subcommand in flight
  body,        \* [pc, script, ip, dev, result]: pc "off" (bodies not modelled), "ready", "run",
               \*   "exec" (awaiting an external command), "done", "exit" (process.exit called)
  world,       \* what the body finds outside the process: files on disk, attached devices, options
  launched,    \* the external commands launched so far: [op, target, extra, status]
  written,     \* the files the body has written
  javaHome,    \* process.env.JAVA_HOME
  \* --- one loadPluginsFromConfig call
  fcConfig,    \* the config argument
  fcPc,        \* position: "idle", "start", "assetsLoad", "packaging", "packagingLoad", "resolved", "rejected"
  fcSteps,     \* the local array steps
  \* --- the storage template in the browser or the native shell
  platform,    \* "web" (window without Capacitor), "native" (window.Capacitor defined), "server" (no window)
  localStorage,\* window.localStorage: key -> string, or null
  preferences, \* the Capacitor Preferences store: key -> string, or null
  stored,      \* localStorage as it was before the first migration
  mgPc,        \* position of migrateStorageData: 0 = not running, k = about to migrate the k-th key, 5 = past the last
  mgRuns,      \* the number of completed migrateStorageData calls
  \* --- updateAndroidConfig of the Capacitor packaging step
  androidConfig,\* the options of config.android the update reads
  manifest,    \* android/app/src/main/AndroidManifest.xml
  buildGradle, \* android/app/build.gradle
  googleServices,\* whether android/app/google-services.json exists
  acPc,        \* "idle", or "ready" when the project is one updateAndroidConfig is called on
  acRuns       \* the number of completed updateAndroidConfig calls

logVars  == <<logger, calls, out>>
pipeVars == <<ctx, steps, outcomes, pc, i, promise, stepState, started, result>>
cfgVars  == <<files, cfgPc, cand, probed, evaluated, cfgResult>>
ldVars   == <<localPkgs, bundled, pluginName, ldPc, ldResult>>
cliVars  == <<env, command, options, cliPc, cliError, exitCode>>
bodyVars == <<body, world, launched, written, javaHome>>
fcVars   == <<fcConfig, fcPc, fcSteps>>
stVars   == <<platform, localStorage, preferences, stored, mgPc, mgRuns>>
acVars   == <<androidConfig, manifest, buildGradle, googleServices, acPc, acRuns>>

\* ------------------------------------------------------------------ Logger
LogLevels == {"debug", "info", "warn", "error"}

order == <<"debug", "info", "warn", "error">>

\* Array.prototype.indexOf: 0-based position of the first occurrence, -1 when absent
IndexOf(arr, x) ==
  IF \E k \in 1..Len(arr) : arr[k] = x
  THEN (CHOOSE k \in 1..Len(arr) : arr[k] = x /\ \A j \in 1..(k-1) : arr[j] # x) - 1
  ELSE -1

shouldLogInverted(self, level) == IndexOf(order, level) <= IndexOf(order, self)

shouldLog(self, level) == IndexOf(order, level) >= IndexOf(order, self)

\* Logger.debug / info / warn / error: the console after the call
LoggerWrite(self, level, message, console) ==
  IF shouldLog(self, level) THEN Append(console, [level |-> level, msg |-> message]) ELSE console

\* Logger.debugStep and debugEnv are gated on the debug level
LoggerDebugStep(self, message, console) ==
  IF shouldLog(self, "debug") THEN Append(console, [level |-> "debug", msg |-> message]) ELSE console

LoggerDebugEnv(self, console) ==
  IF shouldLog(self, "debug") THEN Append(console, [level |-> "debug", msg |-> "env"]) ELSE console

\* one call of a level method on the process-wide logger
LogCall(level) ==
  /\ pc = "idle"
  /\ logger \in LogLevels
  /\ Len(calls) < MaxCalls
  /\ calls' = Append(calls, level)
  /\ out' = LoggerWrite(logger, level, "m", out)
  /\ UNCHANGED <<logger>>
  /\ UNCHANGED <<pipeVars, cfgVars, ldVars, cliVars>>
  /\ UNCHANGED <<bodyVars, fcVars>>
  /\ UNCHANGED <<stVars, acVars>>

\* ------------------------------------------------------------- runPipeline
StepLists == UNION {[1..n -> StubSteps] : n \in 0..MaxSteps}

\* an entry that, with the debug flag set, starts the loop at the second step
PipelineBeginDebugSkips ==
  /\ pc = "entry"
  /\ out' = IF ctx.debug
            THEN LoggerWrite(ctx.logger, "debug", "starting",
                             LoggerDebugEnv(ctx.logger, out))
            ELSE out
  /\ i' = IF ctx.debug /\ Len(steps) > 0 THEN 1 ELSE i
  /\ pc' = "loop"
  /\ UNCHANGED <<logger, calls, ctx, steps, outcomes, promise, stepState, started, result>>
  /\ UNCHANGED <<cfgVars, ldVars, cliVars>>
  /\ UNCHANGED <<bodyVars, fcVars>>
  /\ UNCHANGED <<stVars, acVars>>

PipelineBegin ==
  /\ pc = "entry"
  /\ out' = IF ctx.debug
            THEN LoggerWrite(ctx.logger, "debug", "starting",
                             LoggerDebugEnv(ctx.logger, out))
            ELSE out
  /\ pc' = "loop"
  /\ UNCHANGED <<logger, calls, ctx, steps, outcomes, i, promise, stepState, started, result>>
  /\ UNCHANGED <<cfgVars, ldVars, cliVars>>
  /\ UNCHANGED <<bodyVars, fcVars>>
  /\ UNCHANGED <<stVars, acVars>>

\* a loop body that calls the step without awaiting it
StepInvokeNoAwait ==
  /\ pc = "loop"
  /\ i < Len(steps)
  /\ out' = IF ctx.debug THEN LoggerDebugStep(ctx.logger, "executing", out) ELSE out
  /\ started' = Append(started, i + 1)
  /\ stepState' = [stepState EXCEPT ![i + 1] = "Running"]
  /\ i' = i + 1
  /\ UNCHANGED <<logger, calls, ctx, steps, outcomes, pc, promise, result>>
  /\ UNCHANGED <<cfgVars, ldVars, cliVars>>
  /\ UNCHANGED <<bodyVars, fcVars>>
  /\ UNCHANGED <<stVars, acVars>>

\* loop test passed: invoke steps[i] and await the promise it returns
StepInvoke ==
  /\ pc = "loop"
  /\ i < Len(steps)
  /\ out' = IF ctx.debug THEN LoggerDebugStep(ctx.logger, "executing", out) ELSE out
  /\ started' = Append(started, i + 1)
  /\ stepState' = [stepState EXCEPT ![i + 1] = "Running"]
  /\ promise' = [state |-> "pending", reason |-> "none"]
  /\ pc' = "await"
  /\ UNCHANGED <<logger, calls, ctx, steps, outcomes, i, result>>
  /\ UNCHANGED <<cfgVars, ldVars, cliVars>>
  /\ UNCHANGED <<bodyVars, fcVars>>
  /\ UNCHANGED <<stVars, acVars>>

\* what the loader's and the CLI's inline steps log: they call logger.info and resolve
InlineMessage(plugin) ==
  CASE plugin = "packaging-tauri" -> "Tauri packaging not yet implemented"
    [] plugin = "packaging-twa"   -> "TWA packaging not yet implemented"
    [] OTHER                      -> "publish: stub"

\* what the step at position k does: an inline step only logs, any other step is an
\* opaque async function that resolves or rejects
StepOutcome(k) ==
  IF steps[k].origin = "inline" THEN "ok"
  ELSE IF body.pc = "off" \/ steps[k].origin # "bundled" THEN outcomes[k]
  ELSE body.result

\* the step in flight settles its promise
StepSettle ==
  /\ pc = "await"
  /\ promise.state = "pending"
  /\ \/ body.pc = "off"
     \/ steps[i + 1].origin # "bundled"
     \/ body.pc = "done" /\ body.step = i + 1
  /\ out' = IF steps[i + 1].origin = "inline"
            THEN LoggerWrite(ctx.logger, "info", InlineMessage(steps[i + 1].plugin), out)
            ELSE out
  /\ IF StepOutcome(i + 1) = "ok"
     THEN /\ promise' = [state |-> "fulfilled", reason |-> "none"]
          /\ stepState' = [stepState EXCEPT ![i + 1] = "Succeeded"]
     ELSE /\ promise' = [state |-> "rejected", reason |-> StepOutcome(i + 1)]
          /\ stepState' = [stepState EXCEPT ![i + 1] = "Failed"]
  /\ UNCHANGED <<logger, calls, ctx, steps, outcomes, pc, i, started, result>>
  /\ UNCHANGED <<cfgVars, ldVars, cliVars>>
  /\ UNCHANGED <<bodyVars, fcVars>>
  /\ UNCHANGED <<stVars, acVars>>

\* a loop that advances by two
StepCompletedSkip ==
  /\ pc = "await"
  /\ promise.state = "fulfilled"
  /\ out' = IF ctx.debug THEN LoggerWrite(ctx.logger, "debug", "completed", out) ELSE out
  /\ i' = i + 2
  /\ promise' = [state |-> "none", reason |-> "none"]
  /\ pc' = "loop"
  /\ UNCHANGED <<logger, calls, ctx, steps, outcomes, stepState, started, result>>
  /\ UNCHANGED <<cfgVars, ldVars, cliVars>>
  /\ UNCHANGED <<bodyVars, fcVars>>
  /\ UNCHANGED <<stVars, acVars>>

\* the await returns normally: rest of the try block, then i++
StepCompleted ==
  /\ pc = "await"
  /\ promise.state = "fulfilled"
  /\ out' = IF ctx.debug THEN LoggerWrite(ctx.logger, "debug", "completed", out) ELSE out
  /\ i' = i + 1
  /\ promise' = [state |-> "none", reason |-> "none"]
  /\ pc' = "loop"
  /\ UNCHANGED <<logger, calls, ctx, steps, outcomes, stepState, started, result>>
  /\ UNCHANGED <<cfgVars, ldVars, cliVars>>
  /\ UNCHANGED <<bodyVars, fcVars>>
  /\ UNCHANGED <<stVars, acVars>>

\* the error the catch block re-raises
RethrownWrapped(error) == "wrapped"

Rethrown(error) == error

\* a catch block that does not re-raise: the loop goes on with the next step
StepFailedSwallow ==
  /\ pc = "await"
  /\ promise.state = "rejected"
  /\ out' = IF ctx.debug
            THEN LoggerWrite(ctx.logger, "debug", "stack",
                             LoggerWrite(ctx.logger, "debug", "failed", out))
            ELSE out
  /\ i' = i + 1
  /\ promise' = [state |-> "none", reason |-> "none"]
  /\ pc' = "loop"
  /\ UNCHANGED <<logger, calls, ctx, steps, outcomes, stepState, started, result>>
  /\ UNCHANGED <<cfgVars, ldVars, cliVars>>
  /\ UNCHANGED <<bodyVars, fcVars>>
  /\ UNCHANGED <<stVars, acVars>>

\* the await throws: catch block logs (when debug) and re-raises
StepFailed ==
  /\ pc = "await"
  /\ promise.state = "rejected"
  /\ out' = IF ctx.debug
            THEN LoggerWrite(ctx.logger, "debug", "stack",
                             LoggerWrite(ctx.logger, "debug", "failed", out))
            ELSE out
  /\ result' = [state |-> "rejected", reason |-> Rethrown(promise.reason)]
  /\ promise' = [state |-> "none", reason |-> "none"]
  /\ pc' = "rejected"
  /\ UNCHANGED <<logger, calls, ctx, steps, outcomes, i, stepState, started>>
  /\ UNCHANGED <<cfgVars, ldVars, cliVars>>
  /\ UNCHANGED <<bodyVars, fcVars>>
  /\ UNCHANGED <<stVars, acVars>>

\* a function that, after the last step, waits on a promise nobody settles
PipelineEndAwaits ==
  /\ pc = "loop"
  /\ ~(i < Len(steps))
  /\ pc' = "await"
  /\ UNCHANGED <<logVars, ctx, steps, outcomes, i, promise, stepState, started, result>>
  /\ UNCHANGED <<cfgVars, ldVars, cliVars>>
  /\ UNCHANGED <<bodyVars, fcVars>>
  /\ UNCHANGED <<stVars, acVars>>

\* loop test failed: fall out of the loop and return
PipelineEnd ==
  /\ pc = "loop"
  /\ ~(i < Len(steps))
  /\ out' = IF ctx.debug THEN LoggerWrite(ctx.logger, "debug", "pipeline completed", out) ELSE out
  /\ result' = [state |-> "resolved", reason |-> "none"]
  /\ pc' = "resolved"
  /\ UNCHANGED <<logger, calls, ctx, steps, outcomes, i, promise, stepState, started>>
  /\ UNCHANGED <<cfgVars, ldVars, cliVars>>
  /\ UNCHANGED <<bodyVars, fcVars>>
  /\ UNCHANGED <<stVars, acVars>>

PipelineNext ==
  \/ PipelineBegin
  \/ StepInvoke
  \/ StepSettle
  \/ StepCompleted
  \/ StepFailed
  \/ PipelineEnd

vars == <<logVars, pipeVars, cfgVars, ldVars, cliVars, bodyVars, fcVars, stVars, acVars>>

\* -------------------------------------------------------------- loadConfig
candidatesJsFirst == <<"deploid.config.js", "deploid.config.ts", "deploid.config.mjs", "deploid.config.cjs">>

candidates == <<"deploid.config.ts", "deploid.config.js", "deploid.config.mjs", "deploid.config.cjs">>

Absent == [kind |-> "absent", export |-> "none", loadable |-> FALSE]

\* the configuration objects a config file may export, by kind
ConfigKinds == {"valid", "validOut", "tauri", "twa", "noName", "noId", "noWeb", "noAndroid",
                "noPackaging", "cordova"}

ConfigOf(kind, file) ==
  [ file      |-> file,
    appName   |-> IF kind = "noName" THEN Undefined ELSE "MyApp",
    appId     |-> IF kind = "noId" THEN Undefined ELSE "com.example.myapp",
    framework |-> IF kind = "noWeb" THEN Undefined ELSE "vite",
    buildCommand |-> CASE kind = "noWeb"    -> Undefined
                       [] kind = "validOut" -> "pnpm build"
                       [] OTHER             -> "npm run build",
    android   |-> IF kind = "noAndroid" THEN Undefined ELSE "object",
    packaging |-> CASE kind \in {"noAndroid", "noPackaging"} -> Undefined
                    [] kind = "tauri"   -> "tauri"
                    [] kind = "twa"     -> "twa"
                    [] kind = "cordova" -> "cordova"
                    [] OTHER            -> "capacitor",
    assets    |-> IF kind \in {"valid", "validOut"} THEN "assets/logo.svg" ELSE Undefined,
    assetsOutput |-> IF kind = "validOut" THEN "public/icons" ELSE Undefined,
    from      |-> "none" ]

NoConfig == ConfigOf("noAndroid", "none")

\* the modules a candidate file may hold: a config as default export, a config as
\* named exports only, or a file that import() cannot evaluate
Modules ==
  {[kind |-> k, export |-> "default", loadable |-> TRUE] : k \in ConfigKinds}
    \cup {[kind |-> "tauri", export |-> "named", loadable |-> TRUE],
          [kind |-> "valid", export |-> "default", loadable |-> FALSE]}

\* mod.default: the default export, undefined when the module has none
ModDefault(file) ==
  IF files[file].export = "default"
  THEN [ConfigOf(files[file].kind, file) EXCEPT !.from = "default"]
  ELSE NoConfig

\* the module namespace object read as a configuration
ModNamespace(file) ==
  IF files[file].export = "named"
  THEN [ConfigOf(files[file].kind, file) EXCEPT !.from = "module"]
  ELSE [ConfigOf("noAndroid", file) EXCEPT !.appName = Undefined, !.appId = Undefined,
                                            !.framework = Undefined, !.from = "module"]

\* (mod.default || mod): objects are truthy, undefined is not
DefaultOrModule(file) ==
  IF ModDefault(file) # NoConfig THEN ModDefault(file) ELSE ModNamespace(file)

NoReason == <<>>

\* loop body: fs.existsSync(full) for candidates[cand]
ConfigProbe ==
  /\ cfgPc = "probe"
  /\ cand < Len(candidates)
  /\ LET filename == candidates[cand + 1] IN
       /\ probed' = Append(probed, filename)
       /\ IF files[filename] # Absent
          THEN /\ evaluated' = Append(evaluated, filename)
               /\ cfgPc' = "import"
               /\ UNCHANGED cand
          ELSE /\ cand' = cand + 1
               /\ UNCHANGED <<evaluated, cfgPc>>
  /\ UNCHANGED <<files, cfgResult>>
  /\ UNCHANGED <<logVars, pipeVars, ldVars, cliVars>>
  /\ UNCHANGED <<bodyVars, fcVars>>
  /\ UNCHANGED <<stVars, acVars>>

\* the dynamic import settles: return cfg, or the import error propagates
ConfigImported ==
  /\ cfgPc = "import"
  /\ LET filename == candidates[cand + 1] IN
       IF files[filename].loadable
       THEN /\ cfgResult' = [state |-> "resolved", value |-> DefaultOrModule(filename),
                             reason |-> NoReason]
            /\ cfgPc' = "resolved"
       ELSE /\ cfgResult' = [state |-> "rejected", value |-> NoConfig,
                             reason |-> <<"Cannot evaluate ", filename>>]
            /\ cfgPc' = "rejected"
  /\ UNCHANGED <<files, cand, probed, evaluated>>
  /\ UNCHANGED <<logVars, pipeVars, ldVars, cliVars>>
  /\ UNCHANGED <<bodyVars, fcVars>>
  /\ UNCHANGED <<stVars, acVars>>

\* the loop ran out of candidates
ConfigNotFound ==
  /\ cfgPc = "probe"
  /\ ~(cand < Len(candidates))
  /\ cfgResult' = [state |-> "rejected", value |-> NoConfig, reason |-> <<"No deploid config found">>]
  /\ cfgPc' = "rejected"
  /\ UNCHANGED <<files, cand, probed, evaluated>>
  /\ UNCHANGED <<logVars, pipeVars, ldVars, cliVars>>
  /\ UNCHANGED <<bodyVars, fcVars>>
  /\ UNCHANGED <<stVars, acVars>>

ConfigNext ==
  \/ ConfigProbe
  \/ ConfigImported
  \/ ConfigNotFound

\* -------------------------------------------------------------- loadPlugin
NoStep == [plugin |-> "none", origin |-> "none"]

\* the cases of the switch that import a bundled module: the directory in the path literal
ImportCases == {"assets", "packaging-capacitor", "build-android", "debug-network",
                "deploy-android", "prepare-ios"}

PluginDir(name) ==
  CASE name = "assets"              -> "assets"
    [] name = "packaging-capacitor" -> "packaging-capacitor"
    [] name = "build-android"       -> "build-android"
    [] name = "debug-network"       -> "debug-network"
    [] name = "deploy-android"      -> "deploy-android"
    [] name = "prepare-ios"         -> "prepare-ios"

\* the cases of the switch that return an inline step
\* a switch with no case for the TWA engine
InlineCasesTauriOnly == {"packaging-tauri"}

InlineCases == {"packaging-tauri", "packaging-twa"}

UnknownPluginMessageNoName(name) == <<"Unknown plugin">>

\* default: throw new Error(`Unknown plugin: ${pluginName}`)
UnknownPluginMessage(name) == <<"Unknown plugin: ", name>>

\* the error import() raises for a path that does not exist
ImportErrorMessage(name) == <<"Cannot find module ", "../../plugins/", PluginDir(name), "/dist/index.js">>

\* the switch statement
LoadPluginSwitch ==
  /\ ldPc = "switch"
  /\ CASE pluginName \in InlineCases ->
            /\ ldResult' = [state |-> "resolved",
                            step |-> [plugin |-> pluginName, origin |-> "inline"],
                            reason |-> NoReason]
            /\ ldPc' = "resolved"
       [] pluginName \in ImportCases ->
            /\ ldPc' = "import"
            /\ UNCHANGED ldResult
       [] OTHER ->
            /\ ldResult' = [state |-> "rejected", step |-> NoStep,
                            reason |-> UnknownPluginMessage(pluginName)]
            /\ ldPc' = "rejected"
  /\ UNCHANGED <<localPkgs, bundled, pluginName>>
  /\ UNCHANGED <<logVars, pipeVars, cfgVars, cliVars>>
  /\ UNCHANGED <<bodyVars, fcVars>>
  /\ UNCHANGED <<stVars, acVars>>

\* the dynamic import of the bundled module settles; on success the factory is called
LoadPluginImported ==
  /\ ldPc = "import"
  /\ IF PluginDir(pluginName) \in bundled
     THEN /\ ldResult' = [state |-> "resolved",
                          step |-> [plugin |-> pluginName, origin |-> "bundled"],
                          reason |-> NoReason]
          /\ ldPc' = "resolved"
     ELSE /\ ldResult' = [state |-> "rejected", step |-> NoStep,
                          reason |-> ImportErrorMessage(pluginName)]
          /\ ldPc' = "rejected"
  /\ UNCHANGED <<localPkgs, bundled, pluginName>>
  /\ UNCHANGED <<logVars, pipeVars, cfgVars, cliVars>>
  /\ UNCHANGED <<bodyVars, fcVars>>
  /\ UNCHANGED <<stVars, acVars>>

LoaderNext ==
  \/ LoadPluginSwitch
  \/ LoadPluginImported

\* ------------------------------------------------------------ CLI process
Commands == {"assets", "package", "build", "debug", "deploy", "ios", "publish"}

\* the subcommands whose action begins with await loadConfig()
ConfigCommands == Commands \cup {"uninstall"}

\* JavaScript a || b on strings: undefined and the empty string are falsy
JsOr(a, b) == IF a \in {Undefined, ""} THEN b ELSE a

\* new Logger(process.env.SHIPWRIGHT_LOG_LEVEL as LogLevel || 'info')
LoggerLevelFromEnv(e) == JsOr(e.SHIPWRIGHT_LOG_LEVEL, "info")

\* createContext(cwd, config, debug = false)
createContext(cwd, config, debug) ==
  [cwd |-> cwd, config |-> config, logger |-> IF debug THEN "debug" ELSE logger, debug |-> debug]

\* the debug argument each command passes to createContext
DebugArg == IF command = "debug" THEN FALSE ELSE options.debug

\* the plugin name each command passes to loadPlugin
PluginFor(cmd, config) ==
  CASE cmd = "assets"  -> "assets"
    [] cmd = "package" -> "packaging-" \o config.packaging
    [] cmd = "build"   -> "build-android"
    [] cmd = "debug"   -> "debug-network"
    [] cmd = "deploy"  -> "deploy-android"
    [] cmd = "ios"     -> "prepare-ios"

NoError == [src |-> "none", msg |-> NoReason]

\* module evaluation: the process-wide logger is constructed
ProcessStart ==
  /\ cliPc = "start"
  /\ logger' = LoggerLevelFromEnv(env)
  /\ cliPc' = "dispatch"
  /\ UNCHANGED <<calls, out, env, command, options, cliError, exitCode>>
  /\ UNCHANGED <<pipeVars, cfgVars, ldVars>>
  /\ UNCHANGED <<bodyVars, fcVars>>
  /\ UNCHANGED <<stVars, acVars>>

\* first statement of every pipeline command: await loadConfig()
CommandLoadConfig ==
  /\ cliPc = "dispatch"
  /\ command \in ConfigCommands
  /\ cfgPc = "idle"
  /\ cfgPc' = "probe"
  /\ cliPc' = "loadConfig"
  /\ UNCHANGED <<files, cand, probed, evaluated, cfgResult>>
  /\ UNCHANGED <<env, command, options, cliError, exitCode>>
  /\ UNCHANGED <<logVars, pipeVars, ldVars>>
  /\ UNCHANGED <<bodyVars, fcVars>>
  /\ UNCHANGED <<stVars, acVars>>

\* loadConfig rejected: the action rejects
CommandConfigFailed ==
  /\ cliPc = "loadConfig"
  /\ cfgPc = "rejected"
  /\ cliError' = [src |-> "config", msg |-> cfgResult.reason]
  /\ cliPc' = "rejected"
  /\ UNCHANGED <<env, command, options, exitCode>>
  /\ UNCHANGED <<logVars, pipeVars, cfgVars, ldVars>>
  /\ UNCHANGED <<bodyVars, fcVars>>
  /\ UNCHANGED <<stVars, acVars>>

\* const ctx = createContext(process.cwd(), config, options.debug)
CommandCreateContext ==
  /\ cliPc = "loadConfig"
  /\ command \in Commands
  /\ cfgPc = "resolved"
  /\ ctx' = createContext("cwd", cfgResult.value, DebugArg)
  /\ cliPc' = "context"
  /\ UNCHANGED <<steps, outcomes, pc, i, promise, stepState, started, result>>
  /\ UNCHANGED <<env, command, options, cliError, exitCode>>
  /\ UNCHANGED <<logVars, cfgVars, ldVars>>
  /\ UNCHANGED <<bodyVars, fcVars>>
  /\ UNCHANGED <<stVars, acVars>>

\* await loadPlugin(name, config); the package command reads config.android.packaging
CommandLoadPlugin ==
  /\ cliPc = "context"
  /\ command # "publish"
  /\ IF command = "package" /\ ctx.config.android = Undefined
     THEN /\ cliError' = [src |-> "type", msg |-> <<"Cannot read properties of undefined">>]
          /\ cliPc' = "rejected"
          /\ UNCHANGED <<pluginName, ldPc>>
     ELSE /\ pluginName' = PluginFor(command, ctx.config)
          /\ ldPc' = "switch"
          /\ cliPc' = "loadPlugin"
          /\ UNCHANGED cliError
  /\ UNCHANGED <<localPkgs, bundled, ldResult>>
  /\ UNCHANGED <<env, command, options, exitCode>>
  /\ UNCHANGED <<logVars, pipeVars, cfgVars>>
  /\ UNCHANGED <<bodyVars, fcVars>>
  /\ UNCHANGED <<stVars, acVars>>

\* an action that runs the pipeline although loadPlugin rejected
CommandPluginFailedRuns ==
  /\ cliPc = "loadPlugin"
  /\ ldPc = "rejected"
  /\ steps' = <<[plugin |-> pluginName, origin |-> "stub"]>>
  /\ stepState' = <<"Pending">>
  /\ pc' = "entry"
  /\ cliPc' = "runPipeline"
  /\ UNCHANGED <<ctx, outcomes, i, promise, started, result>>
  /\ UNCHANGED <<env, command, options, cliError, exitCode>>
  /\ UNCHANGED <<logVars, cfgVars, ldVars>>
  /\ UNCHANGED <<bodyVars, fcVars>>
  /\ UNCHANGED <<stVars, acVars>>

\* loadPlugin rejected: the action rejects
CommandPluginFailed ==
  /\ cliPc = "loadPlugin"
  /\ ldPc = "rejected"
  /\ cliError' = [src |-> "plugin", msg |-> ldResult.reason]
  /\ cliPc' = "rejected"
  /\ UNCHANGED <<env, command, options, exitCode>>
  /\ UNCHANGED <<logVars, pipeVars, cfgVars, ldVars>>
  /\ UNCHANGED <<bodyVars, fcVars>>
  /\ UNCHANGED <<stVars, acVars>>

\* await runPipeline(ctx, [step])
CommandRunPipeline ==
  /\ \/ cliPc = "loadPlugin" /\ ldPc = "resolved" /\ steps' = <<ldResult.step>>
     \/ cliPc = "context" /\ command = "publish"
          /\ steps' = <<[plugin |-> "publish", origin |-> "inline"]>>
  /\ stepState' = <<"Pending">>
  /\ pc' = "entry"
  /\ cliPc' = "runPipeline"
  /\ UNCHANGED <<ctx, outcomes, i, promise, started, result>>
  /\ UNCHANGED <<env, command, options, cliError, exitCode>>
  /\ UNCHANGED <<logVars, cfgVars, ldVars>>
  /\ UNCHANGED <<bodyVars, fcVars>>
  /\ UNCHANGED <<stVars, acVars>>

\* runPipeline settled: the action returns or rejects
CommandPipelineSettled ==
  /\ cliPc = "runPipeline"
  /\ pc \in {"resolved", "rejected"}
  /\ IF pc = "resolved"
     THEN /\ cliPc' = "returned"
          /\ UNCHANGED cliError
     ELSE /\ cliPc' = "rejected"
          /\ cliError' = [src |-> "step", msg |-> <<result.reason>>]
  /\ UNCHANGED <<env, command, options, exitCode>>
  /\ UNCHANGED <<logVars, pipeVars, cfgVars, ldVars>>
  /\ UNCHANGED <<bodyVars, fcVars>>
  /\ UNCHANGED <<stVars, acVars>>

\* a process that ends with status 0 whatever the action did
ProcessExitZero ==
  /\ cliPc \in {"returned", "rejected"}
  /\ exitCode' = 0
  /\ out' = IF cliPc = "rejected" THEN Append(out, [level |-> "stderr", msg |-> "uncaught"]) ELSE out
  /\ cliPc' = "exited"
  /\ UNCHANGED <<logger, calls, env, command, options, cliError>>
  /\ UNCHANGED <<pipeVars, cfgVars, ldVars>>
  /\ UNCHANGED <<bodyVars, fcVars>>
  /\ UNCHANGED <<stVars, acVars>>

\* program.parseAsync() is not awaited or caught: a rejection is an unhandled rejection,
\* which the runtime prints before exiting with status 1
ProcessExit ==
  /\ cliPc \in {"returned", "rejected"}
  /\ exitCode' = IF cliPc = "returned" THEN 0 ELSE 1
  /\ out' = IF cliPc = "rejected" THEN Append(out, [level |-> "stderr", msg |-> "uncaught"]) ELSE out
  /\ cliPc' = "exited"
  /\ UNCHANGED <<logger, calls, env, command, options, cliError>>
  /\ UNCHANGED <<pipeVars, cfgVars, ldVars>>
  /\ UNCHANGED <<bodyVars, fcVars>>
  /\ UNCHANGED <<stVars, acVars>>

CliNext ==
  \/ ProcessStart
  \/ CommandLoadConfig
  \/ CommandConfigFailed
  \/ CommandCreateContext
  \/ CommandLoadPlugin
  \/ CommandPluginFailed
  \/ CommandRunPipeline
  \/ CommandPipelineSettled
  \/ ProcessExit

\* ------------------------------------------------ loadPluginsFromConfig
\* a template that ignores the configured engine
PackagingPluginFixed(config) == "packaging-capacitor"

\* `packaging-${config.android.packaging}`
PackagingPlugin(config) == "packaging-" \o config.packaging

\* if (config.assets?.source) steps.push(await loadPlugin('assets', config))
FromConfigBegin ==
  /\ fcPc = "start"
  /\ IF fcConfig.assets \notin {Undefined, ""}
     THEN /\ pluginName' = "assets"
          /\ ldPc' = "switch"
          /\ fcPc' = "assetsLoad"
     ELSE /\ fcPc' = "packaging"
          /\ UNCHANGED <<pluginName, ldPc>>
  /\ UNCHANGED <<localPkgs, bundled, ldResult, fcConfig, fcSteps>>
  /\ UNCHANGED <<logVars, pipeVars, cfgVars, cliVars, bodyVars>>
  /\ UNCHANGED <<stVars, acVars>>

\* the first loadPlugin settled: push its step, or reject with its error
FromConfigAssetsLoaded ==
  /\ fcPc = "assetsLoad"
  /\ ldPc \in {"resolved", "rejected"}
  /\ IF ldPc = "resolved"
     THEN /\ fcSteps' = Append(fcSteps, ldResult.step)
          /\ fcPc' = "packaging"
     ELSE /\ fcPc' = "rejected"
          /\ UNCHANGED fcSteps
  /\ UNCHANGED <<fcConfig, ldVars>>
  /\ UNCHANGED <<logVars, pipeVars, cfgVars, cliVars, bodyVars>>
  /\ UNCHANGED <<stVars, acVars>>

\* const packagingPlugin = `packaging-${config.android.packaging}`; await loadPlugin(...)
FromConfigPackaging ==
  /\ fcPc = "packaging"
  /\ IF fcConfig.android = Undefined
     THEN /\ fcPc' = "rejected"
          /\ UNCHANGED <<pluginName, ldPc>>
     ELSE /\ pluginName' = PackagingPlugin(fcConfig)
          /\ ldPc' = "switch"
          /\ fcPc' = "packagingLoad"
  /\ UNCHANGED <<localPkgs, bundled, ldResult, fcConfig, fcSteps>>
  /\ UNCHANGED <<logVars, pipeVars, cfgVars, cliVars, bodyVars>>
  /\ UNCHANGED <<stVars, acVars>>

\* the second loadPlugin settled: push its step and return steps, or reject
FromConfigPackagingLoaded ==
  /\ fcPc = "packagingLoad"
  /\ ldPc \in {"resolved", "rejected"}
  /\ IF ldPc = "resolved"
     THEN /\ fcSteps' = Append(fcSteps, ldResult.step)
          /\ fcPc' = "resolved"
     ELSE /\ fcPc' = "rejected"
          /\ UNCHANGED fcSteps
  /\ UNCHANGED <<fcConfig, ldVars>>
  /\ UNCHANGED <<logVars, pipeVars, cfgVars, cliVars, bodyVars>>
  /\ UNCHANGED <<stVars, acVars>>

FromConfigNext ==
  \/ FromConfigBegin
  \/ FromConfigAssetsLoaded
  \/ FromConfigPackaging
  \/ FromConfigPackagingLoaded
  \/ LoaderNext

\* ------------------------------------------------ step and subcommand bodies
\* The body of a bundled step, of setupFirebase, of installPlugin/removePlugin and of the
\* adb subcommands, as a list of instructions run by one interpreter.  Kept from the
\* source: every external command (execa) in its order, what happens when it fails, every
\* early return and throw, the warn/error messages, the files written (one per helper
\* function of the larger plugins) and the write to process.env.  Left out: the info and
\* debug progress messages of the bodies.
MaxDevices == 2

\* failTo of an instruction whose failure is not caught locally
Throw == 0

Ins(kind, op, extra, cond, okTo, failTo, level, msg) ==
  [kind |-> kind, op |-> op, extra |-> extra, cond |-> cond,
   okTo |-> okTo, failTo |-> failTo, level |-> level, msg |-> msg]

\* await execa(...) with no try around it but the body's own
Run(op, cond, next) == Ins("exec", op, "", cond, next, Throw, "none", "")

\* const availablePlugins: key -> [name, required]
availablePlugins ==
  [k \in {"assets", "packaging-capacitor", "build-android", "deploy-android", "prepare-ios",
          "debug-network", "storage"} |->
     [name |-> "deploid-plugin-" \o k, required |-> (k = "assets")]]

\* the keys given to --install and --remove
PluginKeys == {"assets", "storage", "nope"}

\* the conditions the bodies branch on
Cond(c) ==
  CASE c = "always"          -> TRUE
    [] c = "noAssetsSource"  -> ctx.config.assets = Undefined
    [] c = "noLogo"          -> ~world.logo
    [] c = "noCapConfig"     -> ~world.capConfig
    [] c = "webDefined"      -> ctx.config.framework # Undefined
    [] c = "androidDefined"  -> ctx.config.android # Undefined
    [] c = "androidDir"      -> world.androidDir
    [] c = "noAndroidDir"    -> ~world.androidDir
    [] c = "noIosDir"        -> ~world.iosDir
    [] c = "apk"             -> world.apk
    [] c = "noApk"           -> ~world.apk
    [] c = "signing"         -> world.signing
    [] c = "noSigning"       -> ~world.signing
    [] c = "noAab"           -> ~world.aab
    [] c = "noDevices"       -> world.devices = 0
    [] c = "autoCreate"      -> world.fb = "create"
    [] c = "listProjects"    -> world.fb = "list"
    [] c = "notProject"      -> files["deploid.config.ts"] = Absent
    [] c = "unknownPlugin"   -> world.pluginKey \notin DOMAIN availablePlugins
    [] c = "requiredPlugin"  -> availablePlugins[world.pluginKey].required
    [] c = "installed"       -> world.installed
    [] c = "notInstalled"    -> ~world.installed

\* an output directory that ignores the configuration
OutputDirDefault(config) == "assets-gen"

\* config.assets.output || 'assets-gen'
OutputDir(config) == JsOr(config.assetsOutput, "assets-gen")

\* one sharp(...).resize(size, size).png().toFile(path) of the three generate functions
Resize(rel) == Ins("write", rel, "", "always", 0, Throw, "none", "")

androidSizes == <<"android/mipmap-mdpi/ic_launcher.png", "android/mipmap-hdpi/ic_launcher.png",
                  "android/mipmap-xhdpi/ic_launcher.png", "android/mipmap-xxhdpi/ic_launcher.png",
                  "android/mipmap-xxxhdpi/ic_launcher.png">>

pwaSizes == <<"icon-192.png", "icon-512.png", "apple-touch-icon.png">>

faviconSizes == <<"favicon-16x16.png", "favicon-32x32.png", "favicon-48x48.png", "favicon-64x64.png">>

\* a body that reports the missing logo and goes on
assetsPluginNoReturn ==
  << Ins("return", "", "", "noAssetsSource", 2, Throw, "warn", "No assets.source configured"),
     Ins("log", "", "", "noLogo", 3, Throw, "error", "Source logo not found") >>
  \o [k \in 1..Len(androidSizes) |-> Resize(androidSizes[k])]
  \o [k \in 1..Len(pwaSizes) |-> Resize(pwaSizes[k])]
  \o [k \in 1..Len(faviconSizes) |-> Resize(faviconSizes[k])]

assetsPlugin ==
  << Ins("return", "", "", "noAssetsSource", 2, Throw, "warn", "No assets.source configured"),
     Ins("return", "", "", "noLogo", 3, Throw, "error", "Source logo not found") >>
  \o [k \in 1..Len(androidSizes) |-> Resize(androidSizes[k])]
  \o [k \in 1..Len(pwaSizes) |-> Resize(pwaSizes[k])]
  \o [k \in 1..Len(faviconSizes) |-> Resize(faviconSizes[k])]

\* a build that starts Gradle without looking for the android directory, and goes on to
\* the release bundle whatever the signing configuration
buildAndroidPluginUnchecked ==
  << Ins("env", "/usr/lib/jvm/java-21-openjdk", "", "always", 2, Throw, "none", ""),
     Run("./gradlew assembleDebug", "always", 3),
     Ins("log", "", "", "noApk", 4, Throw, "warn", "Debug APK not found in expected location"),
     Run("./gradlew bundleRelease", "always", 5) >>

buildAndroidPlugin ==
  << Ins("check", "", "", "androidDir", 2, Throw, "none", "Android project not found"),
     Ins("env", "/usr/lib/jvm/java-21-openjdk", "", "always", 3, Throw, "none", ""),
     Run("./gradlew assembleDebug", "always", 4),
     Ins("log", "", "", "noApk", 5, Throw, "warn", "Debug APK not found in expected location"),
     Ins("check", "", "", "androidDefined", 6, Throw, "none", "TypeError"),
     Ins("return", "", "", "noSigning", 7, Throw, "none", ""),
     Run("./gradlew bundleRelease", "always", 8),
     Ins("log", "", "", "noAab", 9, Throw, "warn", "Release AAB not found in expected location") >>

packagingCapacitor ==
  << Ins("exec", "npx @capacitor/cli --version", "", "always", 3, 2, "warn", "Capacitor CLI not found"),
     Run("npm install -g @capacitor/cli", "always", 3),
     Run("npx @capacitor/cli init", "noCapConfig", 4),
     Ins("check", "", "", "webDefined", 5, Throw, "none", "TypeError"),
     Run("npm run build", "always", 6),
     Run("npx @capacitor/cli sync", "always", 7),
     Run("npx @capacitor/cli add android", "noAndroidDir", 8),
     Ins("fs", "android/gradle.properties", "", "androidDir", 9, Throw, "none", ""),
     Ins("fs", "package.json", "", "always", 10, Throw, "none", ""),
     Ins("exec", "npm install @capacitor/push-notifications", "", "always", 11, 11,
         "warn", "Failed to add push notifications plugin") >>

\* a deployment that goes on to the next device when an install fails
deployAndroidKeepsGoing ==
  << Ins("exec", "adb version", "", "always", 2, Throw, "error", "ADB not found"),
     Ins("check", "", "", "apk", 3, Throw, "error", "APK not found"),
     Ins("exec", "adb devices", "", "always", 4, Throw, "error", "Failed to list devices"),
     Ins("return", "", "", "noDevices", 5, Throw, "warn", "No Android devices connected."),
     Ins("loop", "", "", "always", 6, 8, "none", ""),
     Ins("exec", "adb install -r", "", "always", 7, 5, "error", "Failed to deploy"),
     Ins("exec", "adb shell am start", "", "always", 5, 5, "warn", "Could not launch app") >>

deployAndroid ==
  << Ins("exec", "adb version", "", "always", 2, Throw, "error", "ADB not found"),
     Ins("check", "", "", "apk", 3, Throw, "error", "APK not found"),
     Ins("exec", "adb devices", "", "always", 4, Throw, "error", "Failed to list devices"),
     Ins("return", "", "", "noDevices", 5, Throw, "warn", "No Android devices connected."),
     Ins("loop", "", "", "always", 6, 8, "none", ""),
     Ins("exec", "adb install -r", "", "always", 7, Throw, "error", "Failed to deploy"),
     Ins("exec", "adb shell am start", "", "always", 5, 5, "warn", "Could not launch app") >>

prepareIos ==
  << Ins("exec", "npx @capacitor/cli --version", "", "always", 3, 2, "warn", "Capacitor CLI not found"),
     Run("npm install -g @capacitor/cli", "always", 3),
     Ins("exec", "npm install @capacitor/ios", "", "noIosDir", 4, 4,
         "warn", "Failed to install @capacitor/ios package, continuing..."),
     Ins("exec", "npx @capacitor/cli add ios", "", "noIosDir", 5, Throw,
         "error", "Failed to add iOS platform"),
     Ins("fs", "ios-handoff/IOS_HANDBOOK.md", "", "always", 6, Throw, "none", "") >>

\* loadPlugin wraps debugNetwork(cwd) in a step; the call only builds the inner step
debugNetworkWrapper == << >>

setupFirebase ==
  << Ins("exec", "firebase --version", "", "always", 3, 2, "none", ""),
     Run("npm install -g firebase-tools", "always", 3),
     Run("firebase login", "always", 4),
     Run("firebase projects:create", "autoCreate", 5),
     Run("firebase projects:list", "listProjects", 6),
     Run("firebase use", "always", 7),
     Run("firebase apps:create android", "always", 8),
     Run("firebase apps:sdkconfig android", "always", 9),
     Ins("fs", "android/app/build.gradle", "", "androidDir", 10, Throw, "none", "") >>

\* a second retry after the legacy-peer-deps attempt
installPluginRetryTwice ==
  << Ins("exit", "", "", "notProject", 2, Throw, "error", "Not in a Deploid project"),
     Ins("exit", "", "", "unknownPlugin", 3, Throw, "error", "Unknown plugin"),
     Ins("return", "", "", "installed", 4, Throw, "log", "already installed"),
     Ins("exec", "npm install", "", "always", 7, 5, "log", "Normal install failed, trying with legacy peer deps..."),
     Ins("exec", "npm install", "--legacy-peer-deps", "always", 7, 6, "none", ""),
     Ins("exec", "npm install", "--force", "always", 7, Throw, "none", "") >>

installPlugin ==
  << Ins("exit", "", "", "notProject", 2, Throw, "error", "Not in a Deploid project"),
     Ins("exit", "", "", "unknownPlugin", 3, Throw, "error", "Unknown plugin"),
     Ins("return", "", "", "installed", 4, Throw, "log", "already installed"),
     Ins("exec", "npm install", "", "always", 6, 5, "log", "Normal install failed, trying with legacy peer deps..."),
     Ins("exec", "npm install", "--legacy-peer-deps", "always", 6, Throw, "none", "") >>

\* a removal that does not look at the required flag
removePluginAnyPlugin ==
  << Ins("exit", "", "", "notProject", 2, Throw, "error", "Not in a Deploid project"),
     Ins("exit", "", "", "unknownPlugin", 3, Throw, "error", "Unknown plugin"),
     Ins("return", "", "", "notInstalled", 4, Throw, "log", "is not installed"),
     Run("npm uninstall", "always", 5) >>

removePlugin ==
  << Ins("exit", "", "", "notProject", 2, Throw, "error", "Not in a Deploid project"),
     Ins("exit", "", "", "unknownPlugin", 3, Throw, "error", "Unknown plugin"),
     Ins("exit", "", "", "requiredPlugin", 4, Throw, "error", "Cannot remove required plugin"),
     Ins("return", "", "", "notInstalled", 5, Throw, "log", "is not installed"),
     Run("npm uninstall", "always", 6) >>

devicesCommand == << Run("adb devices", "always", 2) >>

uninstallCommand == << Run("adb uninstall", "always", 2) >>

\* the steps loadPlugin imports, and the subcommands that run outside runPipeline
StepScripts == {"assets", "packaging-capacitor", "build-android", "deploy-android",
                "prepare-ios", "debug-network"}

SubCommands == {"firebase", "plugin-install", "plugin-remove", "devices", "uninstall"}

Script(name) ==
  CASE name = "assets"              -> assetsPlugin
    [] name = "build-android"       -> buildAndroidPlugin
    [] name = "packaging-capacitor" -> packagingCapacitor
    [] name = "deploy-android"      -> deployAndroid
    [] name = "prepare-ios"         -> prepareIos
    [] name = "debug-network"       -> debugNetworkWrapper
    [] name = "firebase"            -> setupFirebase
    [] name = "plugin-install"      -> installPlugin
    [] name = "plugin-remove"       -> removePlugin
    [] name = "devices"             -> devicesCommand
    [] name = "uninstall"           -> uninstallCommand

\* every body logs and throws again
CatchPolicyRethrowAll(name) == "rethrow"

\* what the try/catch around the body does with an error: log and throw it again, log and
\* return, log and process.exit(1), or no try at all
CatchPolicy(name) ==
  CASE name \in {"build-android", "packaging-capacitor", "deploy-android", "prepare-ios"} -> "rethrow"
    [] name \in {"assets", "firebase", "devices", "uninstall"} -> "swallow"
    [] name \in {"plugin-install", "plugin-remove"} -> "exit"
    [] OTHER -> "none"

\* steps log through ctx.logger, subcommands through console.log / console.error
Emit(level, msg, console) ==
  IF level = "none" THEN console
  ELSE IF body.script \in StepScripts THEN LoggerWrite(ctx.logger, level, msg, console)
  ELSE Append(console, [level |-> level, msg |-> msg])

BodyOff == [pc |-> "off", script |-> "none", step |-> 0, ip |-> 0, dev |-> 0, result |-> "none"]

BodyReady == [BodyOff EXCEPT !.pc = "ready"]

\* the catch block of setupFirebase prints with console.log, the others at error level
CatchLevel(name) == IF name = "firebase" THEN "log" ELSE "error"

\* an error leaves the body: the catch block of the body, then the outcome
Raised(error, console) ==
  /\ out' = IF CatchPolicy(body.script) = "none" THEN console
            ELSE Emit(CatchLevel(body.script), "failed", console)
  /\ body' = CASE CatchPolicy(body.script) = "swallow" ->
                    [body EXCEPT !.pc = "done", !.result = "ok"]
               [] CatchPolicy(body.script) = "exit" ->
                    [body EXCEPT !.pc = "exit", !.result = error]
               [] OTHER -> [body EXCEPT !.pc = "done", !.result = error]

\* the instruction the body is at
Cur == Script(body.script)[body.ip]

\* a step that replaces the configuration in the context it was given
BodyStartWritesConfig ==
  /\ pc = "await"
  /\ promise.state = "pending"
  /\ steps[i + 1].origin = "bundled"
  /\ body.pc \in {"ready", "done"}
  /\ body.step # i + 1
  /\ body' = [pc |-> "run", script |-> steps[i + 1].plugin, step |-> i + 1, ip |-> 1,
              dev |-> 0, result |-> "none"]
  /\ ctx' = [ctx EXCEPT !.config = NoConfig]
  /\ UNCHANGED <<world, launched, written, javaHome>>
  /\ UNCHANGED <<logVars, steps, outcomes, pc, i, promise, stepState, started, result>>
  /\ UNCHANGED <<cfgVars, ldVars, cliVars, fcVars>>
  /\ UNCHANGED <<stVars, acVars>>

\* await step(ctx) enters the body of a bundled step
BodyStart ==
  /\ pc = "await"
  /\ promise.state = "pending"
  /\ steps[i + 1].origin = "bundled"
  /\ body.pc \in {"ready", "done"}
  /\ body.step # i + 1
  /\ body' = [pc |-> "run", script |-> steps[i + 1].plugin, step |-> i + 1, ip |-> 1,
              dev |-> 0, result |-> "none"]
  /\ UNCHANGED <<world, launched, written, javaHome>>
  /\ UNCHANGED <<logVars, pipeVars, cfgVars, ldVars, cliVars, fcVars>>
  /\ UNCHANGED <<stVars, acVars>>

\* a statement that launches nothing: early return, throw, process.exit, assignment to
\* process.env, synchronous file write, message, loop head; or an execa whose if is false
BodyStep ==
  /\ body.pc = "run"
  /\ body.ip <= Len(Script(body.script))
  /\ \/ Cur.kind \in {"return", "exit", "check", "env", "fs", "log", "loop"}
     \/ Cur.kind = "exec" /\ ~Cond(Cur.cond)
  /\ CASE Cur.kind = "return" /\ Cond(Cur.cond) ->
            /\ out' = Emit(Cur.level, Cur.msg, out)
            /\ body' = [body EXCEPT !.pc = "done", !.result = "ok"]
            /\ UNCHANGED <<written, javaHome>>
       [] Cur.kind = "exit" /\ Cond(Cur.cond) ->
            /\ out' = Emit(Cur.level, Cur.msg, out)
            /\ body' = [body EXCEPT !.pc = "exit", !.result = Cur.msg]
            /\ UNCHANGED <<written, javaHome>>
       [] Cur.kind = "check" /\ ~Cond(Cur.cond) ->
            /\ Raised(Cur.msg, Emit(Cur.level, Cur.msg, out))
            /\ UNCHANGED <<written, javaHome>>
       [] Cur.kind = "env" ->
            /\ javaHome' = Cur.op
            /\ body' = [body EXCEPT !.ip = Cur.okTo]
            /\ UNCHANGED <<out, written>>
       [] Cur.kind = "fs" /\ Cond(Cur.cond) ->
            /\ written' = written \cup {Cur.op}
            /\ body' = [body EXCEPT !.ip = Cur.okTo]
            /\ UNCHANGED <<out, javaHome>>
       [] Cur.kind = "log" /\ Cond(Cur.cond) ->
            /\ out' = Emit(Cur.level, Cur.msg, out)
            /\ body' = [body EXCEPT !.ip = Cur.okTo]
            /\ UNCHANGED <<written, javaHome>>
       [] Cur.kind = "loop" ->
            /\ body' = IF body.dev < world.devices
                       THEN [body EXCEPT !.dev = body.dev + 1, !.ip = Cur.okTo]
                       ELSE [body EXCEPT !.ip = Cur.failTo]
            /\ UNCHANGED <<out, written, javaHome>>
       [] OTHER ->
            /\ body' = [body EXCEPT !.ip = Cur.okTo]
            /\ UNCHANGED <<out, written, javaHome>>
  /\ UNCHANGED <<logger, calls, world, launched>>
  /\ UNCHANGED <<pipeVars, cfgVars, ldVars, cliVars, fcVars>>
  /\ UNCHANGED <<stVars, acVars>>

\* await sharp(source).resize(...).png().toFile(path): the file is written, or the
\* promise rejects
BodyWrite ==
  /\ body.pc = "run"
  /\ body.ip <= Len(Script(body.script))
  /\ Cur.kind = "write"
  /\ \/ /\ written' = written \cup {<<OutputDir(ctx.config), Cur.op>>}
        /\ body' = [body EXCEPT !.ip = body.ip + 1]
        /\ UNCHANGED out
     \/ /\ Raised("resize failed", out)
        /\ UNCHANGED written
  /\ UNCHANGED <<logger, calls, world, launched, javaHome>>
  /\ UNCHANGED <<pipeVars, cfgVars, ldVars, cliVars, fcVars>>
  /\ UNCHANGED <<stVars, acVars>>

\* execa(...) launches the external command
BodyExec ==
  /\ body.pc = "run"
  /\ body.ip <= Len(Script(body.script))
  /\ Cur.kind = "exec"
  /\ Cond(Cur.cond)
  /\ launched' = Append(launched, [op |-> Cur.op, extra |-> Cur.extra, dev |-> body.dev,
                                   status |-> "running"])
  /\ body' = [body EXCEPT !.pc = "exec"]
  /\ UNCHANGED <<world, written, javaHome>>
  /\ UNCHANGED <<logVars, pipeVars, cfgVars, ldVars, cliVars, fcVars>>
  /\ UNCHANGED <<stVars, acVars>>

\* the external command ends: exit status 0, or non-zero / not found
BodySettle ==
  /\ body.pc = "exec"
  /\ \E status \in {"ok", "failed"} :
       /\ launched' = [launched EXCEPT ![Len(launched)].status = status]
       /\ IF status = "ok"
          THEN /\ body' = [body EXCEPT !.pc = "run", !.ip = Cur.okTo]
               /\ UNCHANGED out
          ELSE IF Cur.failTo = Throw
          THEN Raised(Cur.op, Emit(Cur.level, Cur.msg, out))
          ELSE /\ body' = [body EXCEPT !.pc = "run", !.ip = Cur.failTo]
               /\ out' = Emit(Cur.level, Cur.msg, out)
  /\ UNCHANGED <<logger, calls, world, written, javaHome>>
  /\ UNCHANGED <<pipeVars, cfgVars, ldVars, cliVars, fcVars>>
  /\ UNCHANGED <<stVars, acVars>>

\* the body runs off its end
BodyReturn ==
  /\ body.pc = "run"
  /\ body.ip > Len(Script(body.script))
  /\ body' = [body EXCEPT !.pc = "done", !.result = "ok"]
  /\ UNCHANGED <<world, launched, written, javaHome>>
  /\ UNCHANGED <<logVars, pipeVars, cfgVars, ldVars, cliVars, fcVars>>
  /\ UNCHANGED <<stVars, acVars>>

BodyNext ==
  \/ BodyStart
  \/ BodyStep
  \/ BodyWrite
  \/ BodyExec
  \/ BodySettle
  \/ BodyReturn

\* ------------------------------------------------ --help and --version
\* a program on which the firebase and plugin subcommands were never registered
RegisteredCommandsFewer ==
  <<"init", "assets", "package", "build", "debug", "deploy", "devices", "logs", "uninstall",
    "ios", "ios:assets", "ios:handbook", "publish">>

\* the names given to program.command(...), in registration order
RegisteredCommands ==
  <<"init", "assets", "package", "build", "debug", "deploy", "devices", "logs", "uninstall",
    "ios", "ios:assets", "ios:handbook", "firebase", "plugin", "publish">>

\* program.description(...)
ProgramDescription == "Build -> package -> sign -> publish web apps to Android"

Flags == {"--help", "--version"}

\* the lines commander writes to stdout for the flag
FlagLines(flag) ==
  IF flag = "--version" THEN <<world.version>>
  ELSE <<ProgramDescription>> \o RegisteredCommands

\* program.parseAsync() meets --help or --version: commander prints and exits with
\* status 0 before any action runs
CommandFlag ==
  /\ cliPc = "dispatch"
  /\ command \in Flags
  /\ out' = out \o [k \in 1..Len(FlagLines(command)) |->
                      [level |-> "stdout", msg |-> FlagLines(command)[k]]]
  /\ exitCode' = 0
  /\ cliPc' = "exited"
  /\ UNCHANGED <<logger, calls, env, command, options, cliError>>
  /\ UNCHANGED <<pipeVars, cfgVars, ldVars, bodyVars, fcVars>>
  /\ UNCHANGED <<stVars, acVars>>

\* ------------------------------------------------ subcommands outside runPipeline
\* the action of firebase, plugin --install, plugin --remove and devices starts at once;
\* the action of uninstall starts after await loadConfig()
CommandSubcommand ==
  /\ command \in SubCommands
  /\ \/ cliPc = "dispatch" /\ command # "uninstall"
     \/ cliPc = "loadConfig" /\ cfgPc = "resolved" /\ command = "uninstall"
  /\ body.pc = "ready"
  /\ body' = [pc |-> "run", script |-> command, step |-> 0, ip |-> 1, dev |-> 0, result |-> "none"]
  /\ cliPc' = "subcommand"
  /\ UNCHANGED <<world, launched, written, javaHome>>
  /\ UNCHANGED <<env, command, options, cliError, exitCode>>
  /\ UNCHANGED <<logVars, pipeVars, cfgVars, ldVars, fcVars>>
  /\ UNCHANGED <<stVars, acVars>>

\* the subcommand's action returns, or rejects with the error its body let out
CommandSubSettled ==
  /\ cliPc = "subcommand"
  /\ body.pc = "done"
  /\ IF body.result = "ok"
     THEN /\ cliPc' = "returned"
          /\ UNCHANGED cliError
     ELSE /\ cliPc' = "rejected"
          /\ cliError' = [src |-> "subcommand", msg |-> <<body.result>>]
  /\ UNCHANGED <<env, command, options, exitCode>>
  /\ UNCHANGED <<logVars, pipeVars, cfgVars, ldVars, bodyVars, fcVars>>
  /\ UNCHANGED <<stVars, acVars>>

\* process.exit(1) inside the plugin manager
CommandSubExit ==
  /\ cliPc = "subcommand"
  /\ body.pc = "exit"
  /\ exitCode' = 1
  /\ cliPc' = "exited"
  /\ UNCHANGED <<env, command, options, cliError>>
  /\ UNCHANGED <<logVars, pipeVars, cfgVars, ldVars, bodyVars, fcVars>>
  /\ UNCHANGED <<stVars, acVars>>

SubNext ==
  \/ CommandFlag
  \/ CommandSubcommand
  \/ CommandSubSettled
  \/ CommandSubExit

\* ------------------------------------ storage template: migrateStorageData
MaxRuns == 2

\* what getItem returns for a key that is not stored
null == "<null>"

\* the keys in the order migrateStorageData goes through them:
\* THEME, LOCALE, PUSH_TOKEN, PUSH_PROMPT_DISMISSED
LEGACY_KEYS == <<"theme", "i18nextLng", "pushToken", "pushNotificationPromptDismissed">>

NEW_KEYS == <<"theme", "locale", "pushToken", "pushPromptDismissed">>

StorageKeys == {LEGACY_KEYS[k] : k \in 1..4} \cup {NEW_KEYS[k] : k \in 1..4}

\* the strings an application may have stored: a plain word, a JSON literal, the empty string
StoredValues == {"dark", "true", ""}

\* storage.getItem of the adapter createStorageAdapter chose: the native one when
\* window.Capacitor is defined
getItem(key) ==
  IF platform = "native" THEN preferences[key]
  ELSE IF platform = "server" THEN null
  ELSE localStorage[key]

\* JSON.parse with the fallback to the raw string: the value crossPlatformStorage.get
\* returns for a stored string
JsonParse(value) ==
  IF value = "true" THEN [type |-> "boolean", value |-> "true"]
  ELSE [type |-> "string", value |-> value]

crossPlatformGet(key) ==
  LET value == getItem(key)
  IN  IF value = null THEN [type |-> "null", value |-> null] ELSE JsonParse(value)

\* if (legacy): null and the empty string are falsy
Truthy(value) == value # null /\ value # ""

\* migrateStorageData is called: without a window it returns at once
MigrateBegin ==
  /\ mgPc = 0
  /\ mgRuns < MaxRuns
  /\ IF platform = "server"
     THEN /\ mgRuns' = mgRuns + 1
          /\ UNCHANGED mgPc
     ELSE /\ mgPc' = 1
          /\ UNCHANGED mgRuns
  /\ UNCHANGED <<platform, localStorage, preferences, stored>>
  /\ UNCHANGED <<logVars, pipeVars, cfgVars, ldVars, cliVars, bodyVars, fcVars, acVars>>

\* one of the four blocks: read the legacy key from localStorage; when it is truthy,
\* crossPlatformStorage.set stores the string as it is under the new key through the
\* adapter, then localStorage.removeItem removes the legacy key
MigrateKey ==
  /\ mgPc \in 1..4
  /\ LET legacyKey == LEGACY_KEYS[mgPc]
         newKey == NEW_KEYS[mgPc]
         legacy == localStorage[legacyKey]
     IN  IF Truthy(legacy)
         THEN IF platform = "native"
              THEN /\ preferences' = [preferences EXCEPT ![newKey] = legacy]
                   /\ localStorage' = [localStorage EXCEPT ![legacyKey] = null]
              ELSE /\ localStorage' = [[localStorage EXCEPT ![newKey] = legacy] EXCEPT ![legacyKey] = null]
                   /\ UNCHANGED preferences
         ELSE UNCHANGED <<localStorage, preferences>>
  /\ mgPc' = mgPc + 1
  /\ UNCHANGED <<platform, stored, mgRuns>>
  /\ UNCHANGED <<logVars, pipeVars, cfgVars, ldVars, cliVars, bodyVars, fcVars, acVars>>

\* console.log after the last block
MigrateEnd ==
  /\ mgPc = 5
  /\ out' = Append(out, [level |-> "log", msg |-> "Storage migration completed successfully"])
  /\ mgPc' = 0
  /\ mgRuns' = mgRuns + 1
  /\ UNCHANGED <<logger, calls>>
  /\ UNCHANGED <<platform, localStorage, preferences, stored>>
  /\ UNCHANGED <<pipeVars, cfgVars, ldVars, cliVars, bodyVars, fcVars, acVars>>

StorageNext ==
  \/ MigrateBegin
  \/ MigrateKey
  \/ MigrateEnd

StorageIdle ==
  /\ platform = "server"
  /\ localStorage = [key \in StorageKeys |-> null]
  /\ preferences = [key \in StorageKeys |-> null]
  /\ stored = localStorage
  /\ mgPc = 0
  /\ mgRuns = 0

\* ------------------------- packaging-capacitor: updateAndroidConfig
\* The two files are carried as what the function's includes() tests and regular
\* expressions can tell apart: which tags and blocks exist, how often each attribute or
\* entry occurs, and the values the replacements overwrite.  The other files the function
\* rewrites (gradle.properties, network_security_config.xml, strings.xml, the remaining
\* build.gradle files) get contents that do not depend on what they held before.
\* the attributes the function adds to the application tag and to the activity tag
Attributes ==
  {"android:networkSecurityConfig", "android:usesCleartextTraffic", "android:hardwareAccelerated",
   "android:largeHeap", "android:allowBackup"}
  \cup {"android:theme", "android:screenOrientation", "android:windowSoftInputMode",
         "android:launchMode", "android:taskAffinity"}

\* manifestContent.includes(attribute): anywhere in the file
Includes(m, attribute) == m.applicationTag[attribute] + m.activityTag[attribute] > 0

\* updateAppMetadata on the manifest.  android:label is left alone when it is the string
\* resource, replaced when some label exists, added to the application tag otherwise;
\* package="..." is replaced when present and different from appId
updateAppMetadata(m, c) ==
  LET labelled == IF ~m.application \/ m.label = "@string/app_name" THEN m
                  ELSE [m EXCEPT !.label = c.appName]
  IN  IF m.package # "none" /\ m.package # c.appId
      THEN [labelled EXCEPT !.package = c.appId] ELSE labelled

\* updateAppMetadata, applicationId: replaced when present and different, added to
\* defaultConfig when absent
ApplicationId(g, c) ==
  IF ~g.exists THEN g
  ELSE IF g.applicationId # "none"
  THEN IF g.applicationId # c.appId THEN [g EXCEPT !.applicationId = c.appId] ELSE g
  ELSE IF g.defaultConfig THEN [g EXCEPT !.applicationId = c.appId] ELSE g

\* compileSdkVersion \d+ and targetSdkVersion \d+ are replaced where they occur
TargetSdk(g, c) ==
  IF c.targetSdk # Undefined /\ g.exists /\ g.sdkVersion # "none"
  THEN [g EXCEPT !.sdkVersion = c.targetSdk] ELSE g

\* versionCode \d+ and versionName "..." are replaced where they occur
VersionInfo(g, c) ==
  IF c.version # Undefined /\ g.exists /\ g.version # "none"
  THEN [g EXCEPT !.version = c.version] ELSE g

\* the attributes pushed to applicationAttrs
applicationAttrs(m, c) ==
  (IF ~Includes(m, "android:networkSecurityConfig")
   THEN {"android:networkSecurityConfig", "android:usesCleartextTraffic"} ELSE {})
  \cup (IF c.performance /\ ~Includes(m, "android:hardwareAccelerated")
        THEN {"android:hardwareAccelerated"} ELSE {})
  \cup (IF c.performance /\ ~Includes(m, "android:largeHeap") THEN {"android:largeHeap"} ELSE {})
  \cup (IF c.launch /\ ~Includes(m, "android:allowBackup") THEN {"android:allowBackup"} ELSE {})

\* the attributes pushed to activityAttrs: tested against the MainActivity tag alone
activityAttrs(m, c) ==
  {a \in {"android:theme", "android:screenOrientation", "android:windowSoftInputMode"} :
     c.display /\ m.activityTag[a] = 0}
  \cup {a \in {"android:launchMode", "android:taskAffinity"} : c.launch /\ m.activityTag[a] = 0}

\* a tag with one more occurrence of each of the attributes
Pushed(tag, attrs) == [a \in Attributes |-> IF a \in attrs THEN tag[a] + 1 ELSE tag[a]]

AddPermissionsAlways(m) == [m EXCEPT !.permissions = @ + 1]

\* the additional-permissions block goes before </manifest> unless the file names
\* ACCESS_NETWORK_STATE already
AddPermissions(m) ==
  IF m.permissions = 0 THEN [m EXCEPT !.permissions = 1] ELSE m

\* the AndroidManifest.xml part of updateAndroidConfig
ManifestOptions(m, c) ==
  LET withApp == IF m.application
                 THEN [m EXCEPT !.applicationTag = Pushed(@, applicationAttrs(m, c))]
                 ELSE m
      withAct == IF withApp.activity
                 THEN [withApp EXCEPT !.activityTag = Pushed(@, activityAttrs(withApp, c))]
                 ELSE withApp
  IN  AddPermissions(withAct)

\* compileOptions is added when the file does not name sourceCompatibility, else the
\* versions are set to 21
JavaConfig(g) ==
  IF g.sourceCompatibility = "none"
  THEN [g EXCEPT !.compileOptions = @ + 1, !.sourceCompatibility = "21"]
  ELSE [g EXCEPT !.sourceCompatibility = "21"]

\* one option of the release block: appended when the block does not name it, its first
\* occurrence overwritten otherwise
ReleaseOption(lines, value) ==
  IF value = Undefined THEN lines
  ELSE IF lines = <<>> THEN <<value>> ELSE [lines EXCEPT ![1] = value]

\* the release block of buildTypes with the configured build options
ReleaseOptions(g, c) ==
  IF c.build.given /\ g.release
  THEN [g EXCEPT !.minifyEnabled = ReleaseOption(@, c.build.minifyEnabled),
                 !.shrinkResources = ReleaseOption(@, c.build.shrinkResources),
                 !.proguardFiles = IF c.build.enableProguard # Undefined /\ @ = 0 THEN 1 ELSE @]
  ELSE g

\* multidex: the dependency and the defaultConfig entry, unless the file names multidex
Multidex(g, c) ==
  IF c.build.given /\ c.build.enableMultidex /\ g.multidexDependency = 0
  THEN LET withDep == IF g.dependencies THEN [g EXCEPT !.multidexDependency = 1] ELSE g
       IN  IF withDep.defaultConfig /\ withDep.multiDexEnabled = 0
           THEN [withDep EXCEPT !.multiDexEnabled = 1] ELSE withDep
  ELSE g

\* without google-services.json the first apply-plugin line and the first block of
\* Firebase dependencies are removed
RemoveGoogleServices(g, exists) ==
  IF exists THEN g
  ELSE [g EXCEPT !.googleServicesPlugin = IF @ > 0 THEN @ - 1 ELSE 0,
                 !.firebaseDependencies = IF @ > 0 THEN @ - 1 ELSE 0]

\* the app/build.gradle part of updateAndroidConfig
GradleOptions(g, c, exists) ==
  IF g.exists THEN RemoveGoogleServices(Multidex(ReleaseOptions(JavaConfig(g), c), c), exists) ELSE g

\* the console after the info and warn lines of one call
AndroidConfigLines(m, g, c, console) ==
  LET begun == LoggerWrite(logger, "info", "Updating Android configuration...", console)
      package == IF m.package # "none" /\ m.package # c.appId
                 THEN LoggerWrite(logger, "warn", "Package name changed",
                        LoggerWrite(logger, "info", "Updated package name in AndroidManifest.xml", begun))
                 ELSE begun
  IN  IF g.exists /\ g.applicationId # "none" /\ g.applicationId # c.appId
      THEN LoggerWrite(logger, "info", "Updated applicationId in build.gradle", package)
      ELSE package

\* one call of updateAndroidConfig: nothing happens without AndroidManifest.xml
updateAndroidConfig ==
  /\ acPc = "ready"
  /\ acRuns < MaxRuns
  /\ IF manifest.exists
     THEN /\ manifest' = ManifestOptions(updateAppMetadata(manifest, androidConfig), androidConfig)
          /\ buildGradle' = GradleOptions(
                              VersionInfo(TargetSdk(ApplicationId(buildGradle, androidConfig),
                                                    androidConfig), androidConfig),
                              androidConfig, googleServices)
          /\ out' = AndroidConfigLines(manifest, buildGradle, androidConfig, out)
     ELSE UNCHANGED <<manifest, buildGradle, out>>
  /\ acRuns' = acRuns + 1
  /\ UNCHANGED <<logger, calls>>
  /\ UNCHANGED <<androidConfig, googleServices, acPc>>
  /\ UNCHANGED <<pipeVars, cfgVars, ldVars, cliVars, bodyVars, fcVars, stVars>>

NoManifest ==
  [exists |-> FALSE, application |-> FALSE, activity |-> FALSE, applicationTag |-> [a \in Attributes |-> 0],
   activityTag |-> [a \in Attributes |-> 0], permissions |-> 0, label |-> "none", package |-> "none"]

NoBuildGradle ==
  [exists |-> FALSE, applicationId |-> "none", defaultConfig |-> FALSE, sdkVersion |-> "none",
   version |-> "none", sourceCompatibility |-> "none", compileOptions |-> 0, release |-> FALSE,
   minifyEnabled |-> <<>>, shrinkResources |-> <<>>, proguardFiles |-> 0,
   dependencies |-> FALSE, multidexDependency |-> 0, multiDexEnabled |-> 0,
   googleServicesPlugin |-> 0, firebaseDependencies |-> 0]

\* a configuration that leaves every option of config.android out
NoAndroidConfig ==
  [appName |-> "App", appId |-> "com.app", targetSdk |-> Undefined, version |-> Undefined,
   performance |-> FALSE, display |-> FALSE, launch |-> FALSE,
   build |-> [given |-> FALSE, minifyEnabled |-> Undefined, shrinkResources |-> Undefined,
              enableProguard |-> Undefined, enableMultidex |-> FALSE]]

AndroidConfigIdle ==
  /\ androidConfig = NoAndroidConfig
  /\ manifest = NoManifest
  /\ buildGradle = NoBuildGradle
  /\ googleServices = FALSE
  /\ acPc = "idle"
  /\ acRuns = 0

\* ================================================================ specifications
LoggerIdle ==
  /\ logger = "info"
  /\ calls = <<>>
  /\ out = <<>>

PipelineIdle ==
  /\ ctx = [cwd |-> "cwd", config |-> NoConfig, logger |-> "info", debug |-> FALSE]
  /\ steps = <<>>
  /\ outcomes = <<>>
  /\ pc = "idle"
  /\ i = 0
  /\ promise = [state |-> "none", reason |-> "none"]
  /\ stepState = <<>>
  /\ started = <<>>
  /\ result = [state |-> "none", reason |-> "none"]

ConfigIdle ==
  /\ files = [f \in {candidates[k] : k \in 1..Len(candidates)} |-> Absent]
  /\ cfgPc = "idle"
  /\ cand = 0
  /\ probed = <<>>
  /\ evaluated = <<>>
  /\ cfgResult = [state |-> "none", value |-> NoConfig, reason |-> NoReason]

LoaderIdle ==
  /\ localPkgs = {}
  /\ bundled = ImportCases
  /\ pluginName = "none"
  /\ ldPc = "idle"
  /\ ldResult = [state |-> "none", step |-> NoStep, reason |-> NoReason]

CliIdle ==
  /\ env = [SHIPWRIGHT_LOG_LEVEL |-> Undefined, DEPLOID_LOG_LEVEL |-> Undefined]
  /\ command = "none"
  /\ options = [debug |-> FALSE]
  /\ cliPc = "none"
  /\ cliError = NoError
  /\ exitCode = -1

\* no body is modelled: a step is the opaque function of outcomes
WorldDefault ==
  [logo |-> FALSE, capConfig |-> FALSE, androidDir |-> FALSE, iosDir |-> FALSE, apk |-> FALSE,
   aab |-> FALSE, signing |-> FALSE, devices |-> 0, fb |-> "given", pluginKey |-> "storage",
   installed |-> FALSE, version |-> "0.1.0"]

BodyIdle ==
  /\ body = BodyOff
  /\ world = WorldDefault
  /\ launched = <<>>
  /\ written = {}
  /\ javaHome = Undefined

FromConfigIdle ==
  /\ fcConfig = NoConfig
  /\ fcPc = "idle"
  /\ fcSteps = <<>>

\* ---- one runPipeline call with any context and any list of stub steps
InitPipeline ==
  /\ LoggerIdle
  /\ ctx \in [cwd : {"cwd"}, config : {ConfigOf("valid", "deploid.config.js")},
              logger : LogLevels, debug : BOOLEAN]
  /\ steps \in StepLists
  /\ outcomes \in [1..Len(steps) -> {"ok"} \cup Errors]
  /\ pc = "entry"
  /\ i = 0
  /\ promise = [state |-> "none", reason |-> "none"]
  /\ stepState = [k \in 1..Len(steps) |-> "Pending"]
  /\ started = <<>>
  /\ result = [state |-> "none", reason |-> "none"]
  /\ ConfigIdle
  /\ LoaderIdle
  /\ CliIdle
  /\ BodyIdle
  /\ FromConfigIdle
  /\ StorageIdle
  /\ AndroidConfigIdle

SpecPipeline == InitPipeline /\ [][PipelineNext]_vars

\* the same, where a continuation that can run does run and a started step settles
SpecPipelineFair == InitPipeline /\ [][PipelineNext]_vars /\ WF_vars(PipelineNext)

\* ---- a Logger constructed with each minimum level, called at each level
InitLogger ==
  /\ logger \in LogLevels
  /\ calls = <<>>
  /\ out = <<>>
  /\ PipelineIdle
  /\ ConfigIdle
  /\ LoaderIdle
  /\ CliIdle
  /\ BodyIdle
  /\ FromConfigIdle
  /\ StorageIdle
  /\ AndroidConfigIdle

LoggerNext == \E level \in LogLevels : LogCall(level)

SpecLogger == InitLogger /\ [][LoggerNext]_vars

\* ---- one loadConfig call in any working directory
CandidateNames == {candidates[k] : k \in 1..Len(candidates)}

InitConfig ==
  /\ LoggerIdle
  /\ PipelineIdle
  /\ files \in [CandidateNames -> Modules \cup {Absent}]
  /\ cfgPc = "probe"
  /\ cand = 0
  /\ probed = <<>>
  /\ evaluated = <<>>
  /\ cfgResult = [state |-> "none", value |-> NoConfig, reason |-> NoReason]
  /\ LoaderIdle
  /\ CliIdle
  /\ BodyIdle
  /\ FromConfigIdle
  /\ StorageIdle
  /\ AndroidConfigIdle

SpecConfig == InitConfig /\ [][ConfigNext]_vars

\* ---- one loadPlugin call with any name, any project packages, any bundled build
RequestNames == ImportCases \cup InlineCases \cup {"packaging-cordova", "packaging-undefined", "my-plugin"}

InitLoader ==
  /\ LoggerIdle
  /\ PipelineIdle
  /\ ConfigIdle
  /\ localPkgs \in SUBSET {"assets", "packaging-capacitor", "packaging-tauri", "my-plugin"}
  /\ bundled \in SUBSET {"assets", "packaging-capacitor", "build-android"}
  /\ pluginName \in RequestNames
  /\ ldPc = "switch"
  /\ ldResult = [state |-> "none", step |-> NoStep, reason |-> NoReason]
  /\ CliIdle
  /\ BodyIdle
  /\ FromConfigIdle
  /\ StorageIdle
  /\ AndroidConfigIdle

SpecLoader == InitLoader /\ [][LoaderNext]_vars

\* ---- one loadPluginsFromConfig call with any configuration and any bundled build
InitFromConfig ==
  /\ LoggerIdle
  /\ PipelineIdle
  /\ ConfigIdle
  /\ localPkgs = {}
  /\ bundled \in SUBSET {"assets", "packaging-capacitor", "build-android"}
  /\ pluginName = "none"
  /\ ldPc = "idle"
  /\ ldResult = [state |-> "none", step |-> NoStep, reason |-> NoReason]
  /\ CliIdle
  /\ BodyIdle
  /\ fcConfig \in {ConfigOf(k, "deploid.config.ts") : k \in ConfigKinds}
  /\ fcPc = "start"
  /\ fcSteps = <<>>
  /\ StorageIdle
  /\ AndroidConfigIdle

SpecFromConfig == InitFromConfig /\ [][FromConfigNext]_vars

\* ---- one CLI process running a pipeline subcommand
CliFileSystems ==
  {[f \in CandidateNames |-> Absent]}
    \cup {[f \in CandidateNames |-> IF f = g THEN m ELSE Absent] : g \in CandidateNames, m \in Modules}

Init ==
  /\ logger = "none"
  /\ calls = <<>>
  /\ out = <<>>
  /\ ctx = [cwd |-> "cwd", config |-> NoConfig, logger |-> "info", debug |-> FALSE]
  /\ steps = <<>>
  /\ outcomes \in [1..1 -> {"ok", "e1"}]
  /\ pc = "idle"
  /\ i = 0
  /\ promise = [state |-> "none", reason |-> "none"]
  /\ stepState = <<>>
  /\ started = <<>>
  /\ result = [state |-> "none", reason |-> "none"]
  /\ files \in CliFileSystems
  /\ cfgPc = "idle"
  /\ cand = 0
  /\ probed = <<>>
  /\ evaluated = <<>>
  /\ cfgResult = [state |-> "none", value |-> NoConfig, reason |-> NoReason]
  /\ localPkgs \in {{}, ImportCases \cup InlineCases}
  /\ bundled \in {{}, ImportCases}
  /\ pluginName = "none"
  /\ ldPc = "idle"
  /\ ldResult = [state |-> "none", step |-> NoStep, reason |-> NoReason]
  /\ env \in [SHIPWRIGHT_LOG_LEVEL : {Undefined, "", "debug", "error"},
              DEPLOID_LOG_LEVEL : {Undefined, "debug"}]
  /\ command \in Commands
  /\ options \in [debug : BOOLEAN]
  /\ cliPc = "start"
  /\ cliError = NoError
  /\ exitCode = -1
  /\ BodyIdle
  /\ FromConfigIdle
  /\ StorageIdle
  /\ AndroidConfigIdle

Next ==
  \/ CliNext
  \/ ConfigNext
  \/ LoaderNext
  \/ PipelineNext

Spec == Init /\ [][Next]_vars

\* ---- one CLI process with the bodies of the steps and subcommands
StepFileSystems ==
  {[f \in CandidateNames |-> Absent]}
    \cup {[f \in CandidateNames |->
             IF f = "deploid.config.ts"
             THEN [kind |-> k, export |-> "default", loadable |-> TRUE] ELSE Absent] :
          k \in {"valid", "validOut", "tauri", "twa", "noWeb", "noAndroid", "cordova"}}

\* what each command's body looks at
Worlds(cmd) ==
  CASE cmd = "assets"  -> {[WorldDefault EXCEPT !.logo = l] : l \in BOOLEAN}
    [] cmd = "package" -> {[WorldDefault EXCEPT !.capConfig = c, !.androidDir = a] :
                             c \in BOOLEAN, a \in BOOLEAN}
    [] cmd = "build"   -> {[WorldDefault EXCEPT !.androidDir = a, !.apk = k, !.aab = k, !.signing = g] :
                             a \in BOOLEAN, k \in BOOLEAN, g \in BOOLEAN}
    [] cmd = "deploy"  -> {[WorldDefault EXCEPT !.apk = k, !.devices = d] :
                             k \in BOOLEAN, d \in 0..MaxDevices}
    [] cmd = "ios"     -> {[WorldDefault EXCEPT !.iosDir = d] : d \in BOOLEAN}
    [] cmd = "firebase" -> {[WorldDefault EXCEPT !.fb = m, !.androidDir = a] :
                             m \in {"create", "list", "given"}, a \in BOOLEAN}
    [] cmd \in {"plugin-install", "plugin-remove"} ->
                          {[WorldDefault EXCEPT !.pluginKey = k, !.installed = n] :
                             k \in PluginKeys, n \in BOOLEAN}
    [] cmd = "--version" -> {[WorldDefault EXCEPT !.version = v] : v \in {"0.1.0", "1.2.3"}}
    [] OTHER -> {WorldDefault}

InitSteps ==
  /\ logger = "none"
  /\ calls = <<>>
  /\ out = <<>>
  /\ ctx = [cwd |-> "cwd", config |-> NoConfig, logger |-> "info", debug |-> FALSE]
  /\ steps = <<>>
  /\ outcomes = <<"ok">>
  /\ pc = "idle"
  /\ i = 0
  /\ promise = [state |-> "none", reason |-> "none"]
  /\ stepState = <<>>
  /\ started = <<>>
  /\ result = [state |-> "none", reason |-> "none"]
  /\ files \in StepFileSystems
  /\ cfgPc = "idle"
  /\ cand = 0
  /\ probed = <<>>
  /\ evaluated = <<>>
  /\ cfgResult = [state |-> "none", value |-> NoConfig, reason |-> NoReason]
  /\ localPkgs = {}
  /\ bundled \in {{}, ImportCases}
  /\ pluginName = "none"
  /\ ldPc = "idle"
  /\ ldResult = [state |-> "none", step |-> NoStep, reason |-> NoReason]
  /\ env \in [SHIPWRIGHT_LOG_LEVEL : {Undefined, "debug"}, DEPLOID_LOG_LEVEL : {Undefined}]
  /\ command \in Commands \cup SubCommands \cup Flags
  /\ options \in [debug : BOOLEAN]
  /\ cliPc = "start"
  /\ cliError = NoError
  /\ exitCode = -1
  /\ body = BodyReady
  /\ world \in Worlds(command)
  /\ launched = <<>>
  /\ written = {}
  /\ javaHome = Undefined
  /\ FromConfigIdle
  /\ StorageIdle
  /\ AndroidConfigIdle

StepsNext ==
  \/ CliNext
  \/ SubNext
  \/ ConfigNext
  \/ LoaderNext
  \/ PipelineNext
  \/ BodyNext

SpecSteps == InitSteps /\ [][StepsNext]_vars

\* ---- migrateStorageData, called up to MaxRuns times, on any stored legacy and new keys
InitStorage ==
  /\ LoggerIdle
  /\ PipelineIdle
  /\ ConfigIdle
  /\ LoaderIdle
  /\ CliIdle
  /\ BodyIdle
  /\ FromConfigIdle
  /\ AndroidConfigIdle
  /\ platform \in {"web", "native", "server"}
  /\ localStorage \in [StorageKeys -> StoredValues \cup {null}]
  /\ preferences = [key \in StorageKeys |-> null]
  /\ stored = localStorage
  /\ mgPc = 0
  /\ mgRuns = 0

SpecStorage == InitStorage /\ [][StorageNext]_vars

\* ---- updateAndroidConfig, called up to MaxRuns times on one project with one configuration
\* the manifests of a generated project: none, no application tag, the tag alone or with
\* the launcher activity, with the attributes Capacitor writes or without
ManifestFiles ==
  {NoManifest}
  \cup {[exists |-> TRUE, application |-> tags[1], activity |-> tags[2],
         applicationTag |-> [a \in Attributes |-> IF tags[1] /\ a \in app THEN 1 ELSE 0],
         activityTag |-> [a \in Attributes |-> IF tags[2] /\ a \in act THEN 1 ELSE 0],
         permissions |-> perms, label |-> meta[1], package |-> meta[2]] :
        tags \in {<<FALSE, FALSE>>, <<TRUE, FALSE>>, <<TRUE, TRUE>>},
        app \in {{}, {"android:allowBackup"}},
        act \in {{}, {"android:theme", "android:hardwareAccelerated"}},
        perms \in {0, 1},
        meta \in {<<"none", "none">>, <<"@string/app_name", "old.id">>, <<"Old", "com.app">>}}

\* the app/build.gradle files of a generated project
BuildGradleFiles ==
  {NoBuildGradle}
  \cup {[exists |-> TRUE, applicationId |-> meta[1], defaultConfig |-> blocks[1],
         sdkVersion |-> meta[2], version |-> meta[3], sourceCompatibility |-> java,
         compileOptions |-> IF java = "none" THEN 0 ELSE 1, release |-> rel[1],
         minifyEnabled |-> rel[2], shrinkResources |-> <<>>, proguardFiles |-> Len(rel[2]),
         dependencies |-> blocks[2], multidexDependency |-> 0, multiDexEnabled |-> 0,
         googleServicesPlugin |-> fb, firebaseDependencies |-> fb] :
        meta \in {<<"none", "none", "none">>, <<"old.id", "33", "1.0">>},
        blocks \in BOOLEAN \X BOOLEAN,
        java \in {"none", "17"},
        rel \in {<<FALSE, <<>>>>, <<TRUE, <<>>>>, <<TRUE, <<"false">>>>},
        fb \in {0, 1}}

AndroidConfigs ==
  {[NoAndroidConfig EXCEPT !.targetSdk = IF perf THEN "34" ELSE Undefined,
                           !.version = IF perf THEN "2.0" ELSE Undefined, !.performance = perf,
                           !.display = act, !.launch = act, !.build = build] :
     perf \in BOOLEAN, act \in BOOLEAN,
     build \in {NoAndroidConfig.build}
               \cup {[given |-> TRUE, minifyEnabled |-> "true", shrinkResources |-> opt[1],
                      enableProguard |-> opt[1], enableMultidex |-> opt[2]] :
                     opt \in {<<Undefined, FALSE>>, <<"true", TRUE>>}}}

InitAndroidConfig ==
  /\ LoggerIdle
  /\ PipelineIdle
  /\ ConfigIdle
  /\ LoaderIdle
  /\ CliIdle
  /\ BodyIdle
  /\ FromConfigIdle
  /\ StorageIdle
  /\ androidConfig \in AndroidConfigs
  /\ manifest \in ManifestFiles
  /\ buildGradle \in BuildGradleFiles
  /\ googleServices \in BOOLEAN
  /\ acPc = "ready"
  /\ acRuns = 0

SpecAndroidConfig == InitAndroidConfig /\ [][updateAndroidConfig]_vars

\* ======================================================================= claims
N == Len(steps)

Settled(k) == stepState[k] \in {"Succeeded", "Failed"}

\* C1: runPipeline starts the steps in exactly the supplied order, each at most once,
\* starts step k+1 only after step k has completed successfully, and once a step has
\* failed no later step is ever started.
C1_SuppliedOrder ==
  /\ Len(started) <= N
  /\ \A k \in 1..Len(started) : started[k] = k
  /\ \A k \in 1..Len(started) : k > 1 => stepState[k - 1] = "Succeeded" /\ outcomes[k - 1] = "ok"
  /\ \A k \in 1..N : stepState[k] = "Failed" => Len(started) = k
  /\ \A k \in 1..N : (k > Len(started)) <=> (stepState[k] = "Pending")

C1_Witness ==
  /\ pc = "rejected"
  /\ N = 3
  /\ started = <<1, 2>>
  /\ stepState[2] = "Failed"
  /\ steps[1] # steps[2]

\* C2: if a step rejects with error e, runPipeline rejects with that same e, with and
\* without ctx.debug; runPipeline resolves only if every supplied step resolved.
C2_SameError ==
  /\ result.state = "rejected" =>
       /\ started # <<>>
       /\ outcomes[Len(started)] \in Errors
       /\ result.reason = outcomes[Len(started)]
  /\ result.state = "resolved" => \A k \in 1..N : stepState[k] = "Succeeded" /\ outcomes[k] = "ok"
  /\ (pc \in {"resolved", "rejected"} /\ \E k \in 1..N : stepState[k] = "Failed")
       => result.state = "rejected"
  /\ pc \in {"resolved", "rejected"} <=> result.state # "none"

C2_Witness ==
  /\ result = [state |-> "rejected", reason |-> "e2"]
  /\ ctx.debug
  /\ ctx.logger = "debug"
  /\ Len(out) > 2
  /\ Len(started) = 2

\* C3: at most one step of a run is in flight at any moment: every step started before
\* the latest one has already settled.
C3_OneInFlight ==
  /\ Cardinality({k \in 1..N : stepState[k] = "Running"}) <= 1
  /\ \A k \in 1..Len(started) : k < Len(started) => Settled(started[k])
  /\ \A k \in 1..N : stepState[k] = "Running" => pc = "await" /\ k = i + 1

C3_Witness ==
  /\ N = 3
  /\ stepState = <<"Succeeded", "Running", "Pending">>

\* C4: the per-step states are a prefix of Succeeded steps, then at most one Running or
\* Failed step, then only Pending steps; a run ends with all steps Succeeded, or with
\* exactly one Failed step (the first failing one) and every later step Pending.
C4_StepStates ==
  /\ \E p \in 0..N :
       /\ \A k \in 1..p : stepState[k] = "Succeeded"
       /\ \A k \in (p + 2)..N : stepState[k] = "Pending"
  /\ pc = "resolved" => \A k \in 1..N : stepState[k] = "Succeeded"
  /\ pc = "rejected" =>
       \E f \in 1..N :
         /\ stepState[f] = "Failed"
         /\ outcomes[f] # "ok"
         /\ \A k \in 1..(f - 1) : stepState[k] = "Succeeded" /\ outcomes[k] = "ok"
         /\ \A k \in (f + 1)..N : stepState[k] = "Pending"
  /\ (\A k \in 1..N : stepState[k] \in {"Succeeded", "Failed"} \/ k > Len(started))
       /\ (\E k \in 1..N : stepState[k] = "Failed") => pc \in {"await", "rejected"}

C4_Witness ==
  /\ pc = "rejected"
  /\ stepState = <<"Failed", "Pending", "Pending">>
  /\ outcomes[2] = "ok"

\* the documented probing order
DocumentedOrder == <<"deploid.config.ts", "deploid.config.js", "deploid.config.mjs", "deploid.config.cjs">>

\* position in the documented order of the first candidate that exists, 0 when none does
FirstExisting ==
  IF \E k \in 1..4 : files[DocumentedOrder[k]] # Absent
  THEN CHOOSE k \in 1..4 : /\ files[DocumentedOrder[k]] # Absent
                           /\ \A j \in 1..(k - 1) : files[DocumentedOrder[j]] = Absent
  ELSE 0

\* what a file's module exports: its default export, or the module itself without one
ExportOf(f) == [ConfigOf(files[f].kind, f) EXCEPT !.from = IF files[f].export = "default"
                                                             THEN "default" ELSE "module"]

\* C5: loadConfig probes deploid.config.ts, .js, .mjs, .cjs in that order and returns the
\* default export (or the module itself when there is no default) of the first candidate
\* that exists, evaluating only that candidate; when none exists it fails with
\* 'No deploid config found' and returns no configuration.
C5_FirstCandidate ==
  /\ Len(probed) <= 4
  /\ \A k \in 1..Len(probed) : probed[k] = DocumentedOrder[k]
  /\ FirstExisting # 0 => Len(probed) <= FirstExisting
  /\ evaluated \in {<<>>} \cup {<<DocumentedOrder[k]>> : k \in {FirstExisting} \ {0}}
  /\ cfgPc = "resolved" =>
       /\ FirstExisting # 0
       /\ evaluated = <<DocumentedOrder[FirstExisting]>>
       /\ cfgResult.state = "resolved"
       /\ cfgResult.value = ExportOf(DocumentedOrder[FirstExisting])
  /\ cfgPc = "rejected" =>
       /\ cfgResult.state = "rejected"
       /\ cfgResult.value = NoConfig
       /\ IF FirstExisting = 0
          THEN /\ cfgResult.reason = <<"No deploid config found">>
               /\ probed = DocumentedOrder
               /\ evaluated = <<>>
          ELSE /\ ~files[DocumentedOrder[FirstExisting]].loadable
               /\ evaluated = <<DocumentedOrder[FirstExisting]>>
               /\ cfgResult.reason # <<"No deploid config found">>
  /\ (cfgPc \in {"resolved", "rejected"} /\ FirstExisting # 0
        /\ files[DocumentedOrder[FirstExisting]].loadable) => cfgPc = "resolved"

C5_Witness ==
  /\ cfgPc = "resolved"
  /\ files["deploid.config.ts"] = Absent
  /\ files["deploid.config.js"].export = "named"
  /\ files["deploid.config.mjs"] # Absent
  /\ files["deploid.config.cjs"] # Absent
  /\ cfgResult.value.file = "deploid.config.js"
  /\ cfgResult.value.from = "module"

LacksRequired(c) ==
  \/ c.appName = Undefined
  \/ c.appId = Undefined
  \/ c.framework = Undefined
  \/ c.packaging = Undefined

\* C6: a configuration that lacks appName, appId, web.framework or android.packaging is
\* rejected at load time: loadConfig fails, no plugin is resolved and no step is started.
C6_RequiredFields ==
  (FirstExisting # 0 /\ LacksRequired(ExportOf(DocumentedOrder[FirstExisting]))) =>
     /\ cfgPc # "resolved"
     /\ ldPc = "idle"
     /\ started = <<>>

Rank == [debug |-> 0, info |-> 1, warn |-> 2, error |-> 3]

AtOrAbove(level) == Rank[level] >= Rank[logger]

\* C7: for each configured minimum level and each call level, a call is emitted if and
\* only if its level is at or above the minimum in the order debug < info < warn < error.
C7_LevelFilter ==
  /\ Len(out) <= Len(calls)
  /\ [k \in 1..Len(out) |-> out[k].level] = SelectSeq(calls, AtOrAbove)

C7_Witness ==
  /\ logger = "warn"
  /\ calls = <<"info", "error", "debug">>
  /\ Len(out) = 1

\* C8: the minimum level of the process-wide logger is the value of DEPLOID_LOG_LEVEL
\* read at process start (info when unset); with DEPLOID_LOG_LEVEL=debug the logger
\* emits debug-level messages.
C8_DocumentedVariable ==
  logger # "none" =>
    /\ logger = JsOr(env.DEPLOID_LOG_LEVEL, "info")
    /\ env.DEPLOID_LOG_LEVEL = "debug" => shouldLog(logger, "debug")

\* a step package for the name exists in the bundled location
BundledHas(name) == name \in bundled \/ name \in {"packaging-tauri", "packaging-twa"}

\* C9: when a step package for the requested name exists both in the project's local
\* dependency directory and in the bundled location, loadPlugin returns the project-local
\* step.
C9_LocalPreferred ==
  (ldPc = "resolved" /\ pluginName \in localPkgs /\ BundledHas(pluginName)) =>
     ldResult.step = [plugin |-> pluginName, origin |-> "local"]

Contains(message, name) == \E k \in 1..Len(message) : message[k] = name

\* C10: for every step name that resolves in neither lookup location, loadPlugin fails
\* with an error whose message contains the requested name and returns no step.
C10_UnknownNamed ==
  (ldPc \in {"resolved", "rejected"} /\ pluginName \notin localPkgs /\ ~BundledHas(pluginName)) =>
     /\ ldPc = "rejected"
     /\ ldResult.state = "rejected"
     /\ Contains(ldResult.reason, pluginName)
     /\ ldResult.step = NoStep

C10_Witness ==
  /\ ldPc = "rejected"
  /\ pluginName = "packaging-cordova"
  /\ localPkgs = {}
  /\ ldResult.reason = <<"Unknown plugin: ", "packaging-cordova">>

\* the messages on the console that are not debug output of the runner
Visible == {out[k] : k \in {j \in 1..Len(out) : out[j].level # "debug"}}

UnimplementedEngine ==
  /\ command = "package"
  /\ cfgPc = "resolved"
  /\ cfgResult.value.packaging \in {"tauri", "twa"}

\* C11: for android.packaging in {tauri, twa}, loadPlugin('packaging-' + engine) does not
\* fail; the step it returns, when run, logs one explanatory info message and resolves,
\* launches no external command and writes no file.
C11_UnimplementedEngine ==
  UnimplementedEngine =>
     /\ ldPc # "rejected"
     /\ cliPc # "rejected"
     /\ ldPc = "resolved" =>
          ldResult.step = [plugin |-> "packaging-" \o cfgResult.value.packaging, origin |-> "inline"]
     /\ launched = <<>>
     /\ written = {}
     /\ javaHome = Undefined
     /\ pc # "rejected"
     /\ pc = "resolved" =>
          /\ stepState = <<"Succeeded">>
          /\ Visible = {[level |-> "info", msg |-> InlineMessage(steps[1].plugin)]}
     /\ cliPc = "exited" => exitCode = 0

C11_Witness ==
  /\ UnimplementedEngine
  /\ cfgResult.value.packaging = "twa"
  /\ bundled = {}
  /\ cliPc = "exited"
  /\ Visible = {[level |-> "info", msg |-> "TWA packaging not yet implemented"]}

\* the step loadPlugin returns for a name it resolves
ResolvedStep(name) ==
  [plugin |-> name, origin |-> IF name \in {"packaging-tauri", "packaging-twa"} THEN "inline" ELSE "bundled"]

\* C12: loadPluginsFromConfig returns [assets step, packaging step] when
\* config.assets.source is set and [packaging step] otherwise; the packaging step is the
\* one resolved for 'packaging-' + config.android.packaging and is the last element.
C12_StepsFromConfig ==
  fcPc = "resolved" =>
     /\ fcSteps = (IF fcConfig.assets # Undefined THEN <<ResolvedStep("assets")>> ELSE <<>>)
                     \o <<ResolvedStep("packaging-" \o fcConfig.packaging)>>
     /\ fcSteps[Len(fcSteps)].plugin = "packaging-" \o fcConfig.packaging

C12_Witness ==
  /\ fcPc = "resolved"
  /\ fcConfig.assets = "assets/logo.svg"
  /\ fcSteps = <<[plugin |-> "assets", origin |-> "bundled"],
                 [plugin |-> "packaging-capacitor", origin |-> "bundled"]>>

\* the asset step has finished
AssetsDone == body.script = "assets" /\ body.pc = "done" /\ ctx.config.assets # Undefined

\* the file names of the documented size lists
DocumentedAssetFiles ==
  {"android/mipmap-mdpi/ic_launcher.png", "android/mipmap-hdpi/ic_launcher.png",
   "android/mipmap-xhdpi/ic_launcher.png", "android/mipmap-xxhdpi/ic_launcher.png",
   "android/mipmap-xxxhdpi/ic_launcher.png",
   "icon-192.png", "icon-512.png", "apple-touch-icon.png",
   "favicon-16x16.png", "favicon-32x32.png", "favicon-48x48.png", "favicon-64x64.png"}

ConfiguredDir == IF ctx.config.assetsOutput = Undefined THEN "assets-gen" ELSE ctx.config.assetsOutput

\* no resize was rejected: the body ran off its end
AllResized == body.ip > Len(assetsPlugin)

\* C13: when the source logo exists and every resize succeeds, the asset step writes
\* exactly one file per entry of the three size lists, 12 files, all under
\* config.assets.output or under 'assets-gen' when no output directory is configured.
C13_AssetFiles ==
  (AssetsDone /\ world.logo /\ AllResized) =>
     /\ written = {<<ConfiguredDir, f>> : f \in DocumentedAssetFiles}
     /\ Cardinality(written) = 12

C13_Witness ==
  /\ AssetsDone
  /\ world.logo
  /\ AllResized
  /\ ctx.config.assetsOutput = "public/icons"
  /\ <<"public/icons", "favicon-64x64.png">> \in written

MissingLogo == AssetsDone /\ ~world.logo

Logged(level) == \E k \in 1..Len(out) : out[k].level = level

\* C14 as stated: when assets.source is configured but the source logo does not exist,
\* the asset step logs a warning-level message, does not throw and writes no file.
C14_MissingLogoWarns ==
  MissingLogo =>
     /\ Logged("warn")
     /\ body.result = "ok"
     /\ written = {}

\* C14 amended: when assets.source is configured but the source logo does not exist, the
\* asset step logs the error-level message 'Source logo not found' and no warning, does
\* not throw (the pipeline goes on and resolves) and writes no file.
C14_MissingLogoError ==
  MissingLogo =>
     /\ [level |-> "error", msg |-> "Source logo not found"] \in Visible
     /\ ~Logged("warn")
     /\ body.result = "ok"
     /\ pc # "rejected"
     /\ pc = "resolved" => stepState = <<"Succeeded">>
     /\ written = {}
     /\ launched = <<>>

C14_Witness ==
  /\ MissingLogo
  /\ pc = "resolved"
  /\ cliPc = "exited"
  /\ exitCode = 0
  /\ Logged("error")

Failed(k) == launched[k].status = "failed"

\* C15 as stated: whenever an external command launched by a step or subcommand exits
\* non-zero or cannot be found, the step or subcommand rejects with that failure; it is
\* neither swallowed nor recovered from.
C15_FailuresRethrown ==
  \A k \in 1..Len(launched) :
     Failed(k) => /\ body.pc = "done"
                  /\ body.result = launched[k].op

\* the commands of the bundled steps whose failure a local catch turns into a warning
CaughtOps == {"npx @capacitor/cli --version", "npm install @capacitor/push-notifications",
              "npm install @capacitor/ios", "adb shell am start"}

\* C15 amended: in the bundled steps a failed external command is re-thrown out of the
\* step (the pipeline rejects with it and the process exits 1), except the Capacitor CLI
\* probe (recovered by installing the CLI), npm install @capacitor/push-notifications,
\* npm install @capacitor/ios and adb shell am start, after which the step goes on.  The
\* firebase, devices and uninstall subcommands catch every failed command and return
\* normally.  The plugin manager retries a failed npm install once and ends the process
\* with status 1 when the retry or npm uninstall fails.
C15_FailuresByCommand ==
  /\ body.script \in StepScripts =>
       \A k \in 1..Len(launched) : Failed(k) =>
          IF launched[k].op \in CaughtOps
          THEN body.result # launched[k].op
          ELSE /\ k = Len(launched)
               /\ body.pc = "done"
               /\ body.result = launched[k].op
               /\ pc \in {"resolved", "rejected"} => result = [state |-> "rejected", reason |-> launched[k].op]
               /\ cliPc = "exited" => exitCode = 1
  /\ body.script \in {"firebase", "devices", "uninstall"} =>
       /\ body.pc = "done" => body.result = "ok"
       /\ cliPc # "rejected"
       /\ cliPc = "exited" => exitCode = 0
  /\ body.script \in {"plugin-install", "plugin-remove"} =>
       \A k \in 1..Len(launched) : Failed(k) =>
          IF launched[k].op = "npm install" /\ launched[k].extra = ""
          THEN body.pc \in {"run", "exec"} \/ k < Len(launched)
          ELSE /\ k = Len(launched)
               /\ body.pc = "exit"
               /\ cliPc = "exited" => exitCode = 1

C15_Witness ==
  /\ body.script = "packaging-capacitor"
  /\ Len(launched) = 4
  /\ launched[1].op = "npx @capacitor/cli --version" /\ Failed(1)
  /\ launched[4].op = "npm run build" /\ Failed(4)
  /\ cliPc = "exited"
  /\ exitCode = 1

\* the earlier command k repeats: same program and subcommand, same device
Repeats(j, k) ==
  /\ j < k
  /\ Failed(j)
  /\ launched[k].op = launched[j].op
  /\ launched[k].dev = launched[j].dev

NoStepTwice == \A a, b \in 1..Len(started) : started[a] = started[b] => a = b

\* C16 as stated: nothing is retried: after a step or an external command has failed
\* it is never attempted again, with the same or with modified arguments.
C16_NoRetry ==
  /\ NoStepTwice
  /\ \A j, k \in 1..Len(launched) : ~Repeats(j, k)

\* C16 amended: no step is invoked twice and no failed external command is attempted
\* again, except that installPlugin, after npm install <plugin> has failed, runs it
\* once more with --legacy-peer-deps.
C16_RetryOnlyOnInstall ==
  /\ NoStepTwice
  /\ \A j, k \in 1..Len(launched) : Repeats(j, k) =>
        /\ body.script = "plugin-install"
        /\ j = 1 /\ k = 2
        /\ launched[j].op = "npm install" /\ launched[j].extra = ""
        /\ launched[k].extra = "--legacy-peer-deps"
  /\ Len(launched) > 2 => body.script # "plugin-install"

C16_Witness ==
  /\ body.script = "plugin-install"
  /\ Len(launched) = 2
  /\ Failed(1)
  /\ launched[2] = [op |-> "npm install", extra |-> "--legacy-peer-deps", dev |-> 0, status |-> "ok"]
  /\ cliPc = "exited"
  /\ exitCode = 0

Printed(level) == \E k \in 1..Len(out) : out[k].level = level

\* C17: for each pipeline subcommand, if the step run by the pipeline fails the process
\* prints the error and terminates with a non-zero exit status; if configuration
\* loading, plugin resolution and every step succeed it terminates with status 0.
C17_ExitStatus ==
  (cliPc = "exited" /\ command \in Commands) =>
     /\ pc = "rejected" => /\ exitCode > 0
                           /\ Printed("stderr")
     /\ (cfgPc = "resolved" /\ (command = "publish" \/ ldPc = "resolved") /\ pc = "resolved") =>
          exitCode = 0

C17_Witness ==
  /\ cliPc = "exited"
  /\ command = "build"
  /\ pc = "rejected"
  /\ result.reason = "e1"
  /\ exitCode = 1

\* C18: the exit status distinguishes the kind of failure: 2 for a configuration error,
\* 3 for a plugin error, 4 for a build error, 1 for any other error, 0 on success.
C18_ExitCodes ==
  cliPc = "exited" =>
     exitCode = CASE cliError.src = "none"   -> 0
                  [] cliError.src = "config" -> 2
                  [] cliError.src = "plugin" -> 3
                  [] cliError.src = "step" /\ command = "build" -> 4
                  [] OTHER -> 1

JavaHomeForced == "/usr/lib/jvm/java-21-openjdk"

\* C19 as stated: while a step runs, the context (cwd, config, logger), the
\* configuration and every other in-process state shared with later steps keep their
\* values; a step changes only files and external processes.
C19_StepsLeaveProcessState ==
  [][pc = "await" => /\ ctx' = ctx
                     /\ cfgResult' = cfgResult
                     /\ logger' = logger
                     /\ env' = env
                     /\ javaHome' = javaHome]_vars

\* C19 amended: while a step runs, the context (cwd, config, logger) and the
\* configuration keep their values; the only in-process state a step changes is
\* process.env.JAVA_HOME, which the build step sets to the Java 21 path.
C19_OnlyJavaHome ==
  [][pc = "await" => /\ ctx' = ctx
                     /\ cfgResult' = cfgResult
                     /\ logger' = logger
                     /\ env' = env
                     /\ javaHome' # javaHome =>
                           /\ body.script = "build-android"
                           /\ javaHome' = JavaHomeForced]_vars

C19_Witness ==
  /\ body.script = "build-android"
  /\ javaHome = JavaHomeForced
  /\ pc = "resolved"
  /\ ctx.config = cfgResult.value
  /\ launched # <<>>

\* C20: in every pipeline subcommand configuration loading completes before any plugin
\* is resolved and plugin resolution completes before any step starts; if configuration
\* loading fails no plugin is resolved, and if plugin resolution fails no step is started.
C20_LoadResolveRun ==
  command \in Commands =>
     /\ ldPc # "idle" => cfgPc = "resolved"
     /\ pc # "idle" => /\ cfgPc = "resolved"
                       /\ command = "publish" \/ ldPc = "resolved"
     /\ cfgPc = "rejected" => ldPc = "idle" /\ pc = "idle" /\ started = <<>>
     /\ ldPc = "rejected" => pc = "idle" /\ started = <<>>

C20_Witness ==
  /\ command = "package"
  /\ pluginName = "packaging-cordova"
  /\ ldPc = "rejected"
  /\ cliPc = "exited"
  /\ started = <<>>

\* C21: when the pipeline reports success for the step loadPlugin returns for
\* 'debug-network' (the deploid debug command), the file src/components/NetworkDebug.tsx
\* exists under the working directory.
C21_DebugComponentCreated ==
  (command = "debug" /\ pc = "resolved") => "src/components/NetworkDebug.tsx" \in written

\* position of the Capacitor sync among the launched commands, 0 when not launched
SyncAt ==
  IF \E k \in 1..Len(launched) : launched[k].op = "npx @capacitor/cli sync"
  THEN CHOOSE k \in 1..Len(launched) : launched[k].op = "npx @capacitor/cli sync"
  ELSE 0

\* C22: during deploid package with the Capacitor engine, the web build that precedes
\* the Capacitor sync is the project's configured build command, config.web.buildCommand.
C22_ConfiguredBuildCommand ==
  (body.script = "packaging-capacitor" /\ SyncAt > 0) =>
     /\ SyncAt > 1
     /\ launched[SyncAt - 1].op = ctx.config.buildCommand

Stdout == {out[k].msg : k \in {j \in 1..Len(out) : out[j].level = "stdout"}}

\* the subcommands the program registers
DocumentedCommands ==
  {"init", "assets", "package", "build", "debug", "deploy", "devices", "logs", "uninstall",
   "ios", "ios:assets", "ios:handbook", "firebase", "plugin", "publish"}

\* C23: with --help the CLI prints the program description and the name of every
\* registered subcommand, with --version the version read from package.json; in both
\* cases no configuration is loaded and no step is run, and the process succeeds even in
\* a directory with no configuration file.
C23_HelpAndVersion ==
  command \in Flags =>
     /\ cfgPc = "idle" /\ probed = <<>>
     /\ ldPc = "idle"
     /\ pc = "idle" /\ started = <<>>
     /\ body.pc = "ready" /\ launched = <<>>
     /\ cliPc # "rejected"
     /\ cliPc = "exited" =>
          /\ exitCode = 0
          /\ command = "--help" =>
                Stdout = {"Build -> package -> sign -> publish web apps to Android"}
                            \cup DocumentedCommands
          /\ command = "--version" => Stdout = {world.version}

C23_Witness ==
  /\ command = "--help"
  /\ \A f \in DOMAIN files : files[f] = Absent
  /\ cliPc = "exited"
  /\ "firebase" \in Stdout

RequiredRemoval ==
  /\ body.script = "plugin-remove"
  /\ world.pluginKey = "assets"

Ops(op) == {k \in 1..Len(launched) : launched[k].op = op}

AllOk == \A k \in 1..Len(launched) : launched[k].status = "ok"

\* C26: the build step fails with 'Android project not found' before launching any
\* Gradle command when <cwd>/android does not exist; otherwise it runs assembleDebug
\* first and bundleRelease only if signing is configured and assembleDebug succeeded; a
\* Gradle failure is logged and re-thrown; a missing artifact after a successful Gradle
\* run yields only a warning and the step still succeeds.
C26_BuildOrder ==
  body.script = "build-android" =>
     /\ ~world.androidDir =>
          /\ launched = <<>>
          /\ body.pc = "done" => /\ body.result = "Android project not found"
                                 /\ Logged("error")
     /\ Len(launched) <= 2
     /\ launched # <<>> => launched[1].op = "./gradlew assembleDebug"
     /\ Len(launched) = 2 => /\ launched[2].op = "./gradlew bundleRelease"
                             /\ world.signing
                             /\ launched[1].status = "ok"
     /\ \A k \in 1..Len(launched) : Failed(k) =>
          /\ k = Len(launched)
          /\ body.pc = "done" /\ body.result = launched[k].op
          /\ Logged("error")
          /\ pc \in {"resolved", "rejected"} => pc = "rejected" /\ result.reason = launched[k].op
     /\ (body.pc = "done" /\ launched # <<>> /\ AllOk /\ ctx.config.android # Undefined) =>
          /\ body.result = "ok"
          /\ ~Logged("error")
          /\ ~world.apk => Logged("warn")
          /\ world.signing => Len(launched) = 2

C26_Witness ==
  /\ body.script = "build-android"
  /\ body.pc = "done" /\ body.result = "ok"
  /\ ~world.apk /\ world.signing
  /\ Len(launched) = 2 /\ AllOk
  /\ Logged("warn")
  /\ pc = "resolved"

Installs == Ops("adb install -r")

\* C27: the deploy step throws before listing or installing when the debug APK is
\* missing; with zero connected devices it warns and resolves without any install;
\* otherwise it installs on the devices one at a time in the listed order, the first
\* install failure aborts the remaining devices and is re-thrown, and a failure to launch
\* the app after a successful install is only a warning.
C27_DeployOrder ==
  body.script = "deploy-android" =>
     /\ ~world.apk =>
          /\ Ops("adb devices") = {} /\ Installs = {}
          /\ (body.pc = "done" /\ AllOk) => body.result = "APK not found"
     /\ (world.devices = 0 /\ body.pc = "done" /\ AllOk /\ world.apk) =>
          /\ body.result = "ok"
          /\ Logged("warn")
     /\ world.devices = 0 => Installs = {}
     /\ \A k \in Installs :
          /\ launched[k].dev = Cardinality({j \in Installs : j <= k})
          /\ launched[k].dev <= world.devices
          /\ \A j \in Installs : j < k => launched[j].status = "ok"
          /\ Failed(k) => /\ k = Len(launched)
                          /\ body.pc = "done" /\ body.result = "adb install -r"
                          /\ pc \in {"resolved", "rejected"} => pc = "rejected"
     /\ \A k \in Ops("adb shell am start") :
          /\ launched[k - 1].op = "adb install -r"
          /\ launched[k - 1].status = "ok"
          /\ launched[k - 1].dev = launched[k].dev
          /\ Failed(k) => /\ body.result # "adb shell am start"
                          /\ Logged("warn")
     /\ (body.pc = "done" /\ AllOk /\ world.apk /\ world.devices > 0) =>
          /\ body.result = "ok"
          /\ Cardinality(Installs) = world.devices

C27_Witness ==
  /\ body.script = "deploy-android"
  /\ world.devices = 2
  /\ Len(launched) = 5
  /\ launched[4].op = "adb shell am start" /\ Failed(4)
  /\ launched[5].op = "adb install -r" /\ launched[5].dev = 2 /\ Failed(5)
  /\ pc = "rejected"

\* the first position whose step rejects, 0 when every step resolves
FirstFailure ==
  IF \E k \in 1..N : outcomes[k] # "ok"
  THEN CHOOSE k \in 1..N : outcomes[k] # "ok" /\ \A j \in 1..(k - 1) : outcomes[j] = "ok"
  ELSE 0

\* what the step list and the step outcomes alone determine
ExpectedStarted == [k \in 1..(IF FirstFailure = 0 THEN N ELSE FirstFailure) |-> k]

ExpectedResult ==
  IF FirstFailure = 0 THEN [state |-> "resolved", reason |-> "none"]
  ELSE [state |-> "rejected", reason |-> outcomes[FirstFailure]]

PipelineSettled == pc \in {"resolved", "rejected"}

\* C28: for the same step list and step outcomes, runPipeline with ctx.debug set and
\* unset invokes the same steps in the same order and ends with the same result: both
\* are the ones the list and the outcomes determine; the flag only adds debug output.
C28_DebugOnlyLogs ==
  PipelineSettled =>
     /\ started = ExpectedStarted
     /\ result = ExpectedResult
     /\ ~ctx.debug => out = <<>>
     /\ \A k \in 1..Len(out) : out[k].level = "debug"

C28_Witness ==
  /\ PipelineSettled
  /\ ctx.debug
  /\ out # <<>>
  /\ started = <<1, 2>>
  /\ result = [state |-> "rejected", reason |-> "e2"]

\* C30: if every started step eventually settles, runPipeline eventually settles,
\* after at most n step invocations for a list of n steps; with an empty list it
\* resolves without invoking anything.
C30_Settles ==
  /\ <>PipelineSettled
  /\ [](Len(started) <= N)
  /\ []((N = 0 /\ PipelineSettled) => (pc = "resolved" /\ started = <<>>))
  /\ [](N = 0 => pc # "await")

C30_Witness ==
  /\ pc = "resolved"
  /\ N >= 2
  /\ Len(started) = N

\* C25: in a web environment, once migrateStorageData has completed, every non-empty
\* value that was stored under a legacy key is what crossPlatformStorage.get returns
\* under the new key, and a later run of the migration changes neither store.
Migrated == platform = "web" /\ mgRuns >= 1 /\ mgPc = 0

C25_NoValueLost ==
  /\ [](Migrated =>
          \A k \in 1..4 :
            Truthy(stored[LEGACY_KEYS[k]])
              => crossPlatformGet(NEW_KEYS[k]) = JsonParse(stored[LEGACY_KEYS[k]]))
  /\ [][(platform = "web" /\ mgRuns >= 1)
          => (localStorage' = localStorage /\ preferences' = preferences)]_vars

\* C29: a second updateAndroidConfig on the same project with the same configuration
\* leaves AndroidManifest.xml and app/build.gradle as the first left them, and no
\* application or activity attribute, permissions block, compileOptions block, multidex
\* entry or release build option ever occurs more than once.
InsertedAtMostOnce ==
  /\ \A a \in Attributes : manifest.applicationTag[a] <= 1 /\ manifest.activityTag[a] <= 1
  /\ manifest.permissions <= 1
  /\ buildGradle.compileOptions <= 1
  /\ buildGradle.multidexDependency <= 1
  /\ buildGradle.multiDexEnabled <= 1
  /\ Len(buildGradle.minifyEnabled) <= 1
  /\ Len(buildGradle.shrinkResources) <= 1
  /\ buildGradle.proguardFiles <= 1

====
